---- MODULE Spec2Model ----
(***************************************************************************)
(* Model of the StudySprint estimation service                             *)
(* (backend/modules/estimation): the user_reading_patterns,                *)
(* estimation_data and estimation_history tables and the operations of     *)
(* EstimationService that read and write them.  Python floats are modelled *)
(* as exact rationals [n, d] in lowest terms.                              *)
(***************************************************************************)
EXTENDS Integers, Sequences, FiniteSets, TLC

(***************************************************************************)
(* Bounds of the model.                                                    *)
(***************************************************************************)
\* RecordOutcome calls that would take total_study_sessions past this cap
\* are not explored.
MaxSessions == 1
\* RecordOutcome calls that would make the history ledger longer than this
\* are not explored.
MaxHistory == 1
\* The confidence score is computed for session counts up to this one.
MaxCount == 32
\* The same speed is observed at most this many times in a row.
MaxObservations == 3

(***************************************************************************)
(* Exact rational arithmetic.                                              *)
(***************************************************************************)
RECURSIVE Gcd(_, _)
Gcd(a, b) == IF b = 0 THEN a ELSE Gcd(b, a % b)

Abs(x) == IF x < 0 THEN 0 - x ELSE x

\* n/d with the common divisor g taken out; d > 0
Reduced(n, d, g) == [n |-> n \div g, d |-> d \div g]

Rat(n, d) ==
    Reduced(IF d < 0 THEN 0 - n ELSE n, Abs(d), Gcd(Abs(n), Abs(d)))

RInt(k) == [n |-> k, d |-> 1]
\* a and b brought to the common denominator (a.d * b.d) / g, g = gcd(a.d, b.d)
OverCommon(a, b, g, sign) ==
    Rat(a.n * (b.d \div g) + sign * b.n * (a.d \div g), (a.d \div g) * b.d)
RAdd(a, b) == OverCommon(a, b, Gcd(a.d, b.d), 1)
RSub(a, b) == OverCommon(a, b, Gcd(a.d, b.d), 0 - 1)
\* the product, with the common divisors taken out crosswise first
CrossProduct(a, b, g1, g2) ==
    Rat((a.n \div g1) * (b.n \div g2), (a.d \div g2) * (b.d \div g1))
RMul(a, b) == CrossProduct(a, b, Gcd(Abs(a.n), b.d), Gcd(Abs(b.n), a.d))
RDiv(a, b) == RMul(a, Rat(b.d, b.n))
\* the numerators of a and b over their common denominator
Over(a, b, g) == a.n * (b.d \div g)
RLe(a, b) == Over(a, b, Gcd(a.d, b.d)) <= Over(b, a, Gcd(a.d, b.d))
RLt(a, b) == Over(a, b, Gcd(a.d, b.d)) < Over(b, a, Gcd(a.d, b.d))
RMin(a, b) == IF RLe(a, b) THEN a ELSE b
RMax(a, b) == IF RLe(a, b) THEN b ELSE a
RAbs(a) == [n |-> Abs(a.n), d |-> a.d]
RIsZero(a) == a.n = 0

Zero == RInt(0)
One == RInt(1)

(***************************************************************************)
(* Enumerations and nullable ids.                                          *)
(***************************************************************************)
\* Python None for a nullable foreign key; primary keys start at 1.
None == 0

\* ContentType.PDF.value and ContentType.TOPIC.value
PDF == "pdf"
TOPIC == "topic"

\* Query.first() on the rows at the positions S of a table: the position of
\* the first of them, 0 (no row) when there is none.
First(S) == IF S = {} THEN 0 ELSE CHOOSE i \in S : \A j \in S : i <= j

\* db.query(UserReadingPatterns).filter(content_type == ...).first()
FindPatterns(table, content_type) ==
    First({i \in DOMAIN table : table[i].content_type = content_type})

\* db.query(EstimationData).filter(content_type == ..., content_id == ...)
\* .first()
FindEstimation(table, content_type, content_id) ==
    First({i \in DOMAIN table : /\ table[i].content_type = content_type
                                /\ table[i].content_id = content_id})

\* A plausible slip: every performance factor and adjustment is given the
\* default 1.0.
NewPatternsAllOnes(content_type) ==
    [content_type |-> content_type,
     average_speed_pages_per_minute |-> One,
     peak_speed_pages_per_minute |-> Rat(3, 2),
     minimum_speed_pages_per_minute |-> Rat(1, 2),
     morning_performance_factor |-> One,
     afternoon_performance_factor |-> One,
     evening_performance_factor |-> One,
     night_performance_factor |-> One,
     beginner_adjustment |-> One,
     intermediate_adjustment |-> One,
     advanced_adjustment |-> One,
     expert_adjustment |-> One,
     consistency_score |-> Rat(1, 2),
     total_study_sessions |-> 0]

(***************************************************************************)
(* UserReadingPatterns                                                     *)
(***************************************************************************)
\* A row as _get_user_reading_patterns creates it: the two values it passes
\* and the column defaults for the rest.
NewPatterns(content_type) ==
    [content_type |-> content_type,
     average_speed_pages_per_minute |-> One,
     peak_speed_pages_per_minute |-> Rat(3, 2),
     minimum_speed_pages_per_minute |-> Rat(1, 2),
     morning_performance_factor |-> One,
     afternoon_performance_factor |-> Rat(9, 10),
     evening_performance_factor |-> Rat(8, 10),
     night_performance_factor |-> Rat(6, 10),
     beginner_adjustment |-> Rat(7, 10),
     intermediate_adjustment |-> One,
     advanced_adjustment |-> Rat(13, 10),
     expert_adjustment |-> Rat(15, 10),
     consistency_score |-> Rat(1, 2),
     total_study_sessions |-> 0]

\* UserReadingPatterns.get_time_factor
get_time_factor(p, hour) ==
    IF 6 <= hour /\ hour < 12 THEN p.morning_performance_factor
    ELSE IF 12 <= hour /\ hour < 18 THEN p.afternoon_performance_factor
    ELSE IF 18 <= hour /\ hour < 24 THEN p.evening_performance_factor
    ELSE p.night_performance_factor

\* _get_user_reading_patterns on the patterns table: the table after the
\* call (a row is added and committed when the query finds none).
GetOrCreatePatterns(table, content_type) ==
    IF FindPatterns(table, content_type) = 0
    THEN Append(table, NewPatterns(content_type))
    ELSE table

\* The row _get_user_reading_patterns returns, read from the table after the
\* call.
PatternsRow(table, content_type) ==
    table[FindPatterns(table, content_type)]

(***************************************************************************)
(* Estimation helpers                                                      *)
(***************************************************************************)
\* _calculate_base_estimation
CalculateBaseEstimation(content_type, content_size, p) ==
    IF content_type = PDF
    THEN RDiv(RInt(content_size), p.average_speed_pages_per_minute)
    ELSE RMul(RInt(content_size), RInt(2))

\* dict.get(key, default) on a user_context
CtxGet(user_context, key, default) ==
    IF key \in DOMAIN user_context THEN user_context[key] ELSE default

\* Lines 363-369: difficulty_map.get(difficulty, 1.0)
DifficultyFactor(difficulty, p) ==
    CASE difficulty = "beginner" -> p.beginner_adjustment
      [] difficulty = "intermediate" -> p.intermediate_adjustment
      [] difficulty = "advanced" -> p.advanced_adjustment
      [] difficulty = "expert" -> p.expert_adjustment
      [] OTHER -> One

\* _calculate_context_factors; current_hour is datetime.now().hour
CalculateContextFactors(user_context, p, current_hour) ==
    LET Factors(tod, diff, energy, cons) ==
            [time_of_day_factor |-> tod,
             difficulty_factor |-> diff,
             energy_factor |-> energy,
             consistency_factor |-> cons,
             total_factor |-> RMul(RMul(RMul(tod, diff), energy), cons)]
    IN  Factors(get_time_factor(p, current_hour),
                DifficultyFactor(CtxGet(user_context, "difficulty",
                                        "intermediate"), p),
                RAdd(Rat(1, 2),
                     RMul(CtxGet(user_context, "energy_level", Rat(8, 10)),
                          Rat(1, 2))),
                RMax(Rat(7, 10), p.consistency_score))

\* _score_to_confidence_level
ScoreToConfidenceLevel(score) ==
    IF RLe(Rat(8, 10), score) THEN "very_high"
    ELSE IF RLe(Rat(6, 10), score) THEN "high"
    ELSE IF RLe(Rat(4, 10), score) THEN "medium"
    ELSE "low"

\* A plausible slip: the final clamp to [0, 1] is left out.
ConfidenceUnclamped(total_study_sessions, consistency_score, total_factor) ==
    RAdd(RAdd(RAdd(Rat(1, 2),
                   RMin(Rat(3, 10),
                        RMul(RInt(total_study_sessions), Rat(1, 100)))),
              RMul(consistency_score, Rat(2, 10))),
         RMul(RSub(One, RAbs(RSub(total_factor, One))), Rat(2, 10)))

\* _calculate_confidence: the score (the level is ScoreToConfidenceLevel of
\* it): base 0.5 + session_confidence + consistency_confidence +
\* stability_confidence, clamped to [0, 1]
CalculateConfidence(total_study_sessions, consistency_score, total_factor) ==
    RMax(Zero,
         RMin(One,
              RAdd(RAdd(RAdd(Rat(1, 2),
                             RMin(Rat(3, 10),
                                  RMul(RInt(total_study_sessions),
                                       Rat(1, 100)))),
                        RMul(consistency_score, Rat(2, 10))),
                   RMul(RSub(One, RAbs(RSub(total_factor, One))),
                        Rat(2, 10)))))

(***************************************************************************)
(* State                                                                   *)
(***************************************************************************)
VARIABLES
    pdfs,         \* pdfs table: id -> [page_count, topic_id, ...]
    topics,       \* topics table: id -> [is_active, is_archived, ...]
    sessions,     \* sessions table: id -> row written by the sessions service
    patterns,     \* user_reading_patterns table, a sequence of rows
    estimations,  \* estimation_data table, a sequence of rows; id = position
    history,      \* estimation_history table, a sequence of rows
    analytics,    \* session_analytics table, a sequence of rows
    running,      \* the requests that have started and not yet returned
    added,        \* the EstimationHistory object the last call built, if any
    call,         \* the service call made last and its arguments
    result,       \* what that call returned or raised
    active_timers,  \* SessionsService.active_timers: session id -> TimeTracker
    utcnow,       \* the clock datetime.utcnow() reads, in ticks
    elapsed       \* for each session, the ticks it has spent in each status

vars == <<pdfs, topics, sessions, patterns, estimations, history, analytics,
          running, added, call, result, active_timers, utcnow, elapsed>>

\* The sessions service of a process that has started no session.
NoTimers == active_timers = <<>> /\ utcnow = 0 /\ elapsed = <<>>

\* The three tables the estimation service writes, as one value.
Db == [patterns |-> patterns, estimations |-> estimations, history |-> history]

(***************************************************************************)
(* _store_estimation                                                       *)
(***************************************************************************)
\* The row of lines 450-458 (without the timestamps).
NewEstimation(content_type, content_id, estimated_time, confidence_score, confidence_level, factors) ==
    [content_type |-> content_type,
     content_id |-> content_id,
     estimated_time_minutes |-> estimated_time,
     confidence_score |-> confidence_score,
     confidence_level |-> confidence_level,
     estimation_factors |-> factors,
     algorithm_version |-> "1.0"]

\* A plausible slip: the existing row is not looked up, a row is always added.
StoreEstimationAlwaysInsert(table, content_type, content_id, estimated_time, confidence_score, confidence_level, factors) ==
    Append(table,
           NewEstimation(content_type, content_id, estimated_time,
                         confidence_score, confidence_level, factors))

\* A plausible slip: the existing row is looked up by content_type alone.
StoreEstimationAnyId(table, content_type, content_id, estimated_time, confidence_score, confidence_level, factors) ==
    LET Put(i) ==
            IF i # 0
            THEN [table EXCEPT ![i] =
                     [@ EXCEPT !.estimated_time_minutes = estimated_time,
                               !.confidence_score = confidence_score,
                               !.confidence_level = confidence_level,
                               !.estimation_factors = factors]]
            ELSE Append(table,
                        NewEstimation(content_type, content_id,
                                      estimated_time, confidence_score,
                                      confidence_level, factors))
    IN  Put(First({k \in DOMAIN table :
                      table[k].content_type = content_type}))

\* A plausible slip: the update branch adds to the stored time.
StoreEstimationAccumulate(table, content_type, content_id, estimated_time, confidence_score, confidence_level, factors) ==
    LET Put(i) ==
            IF i # 0
            THEN [table EXCEPT ![i] =
                     [@ EXCEPT !.estimated_time_minutes =
                                   RAdd(@, estimated_time),
                               !.confidence_score = confidence_score,
                               !.confidence_level = confidence_level,
                               !.estimation_factors = factors]]
            ELSE Append(table,
                        NewEstimation(content_type, content_id,
                                      estimated_time, confidence_score,
                                      confidence_level, factors))
    IN  Put(FindEstimation(table, content_type, content_id))

\* _store_estimation on the estimation_data table: the table after the call
StoreEstimation(table, content_type, content_id, estimated_time, confidence_score, confidence_level, factors) ==
    LET Put(i) ==
            IF i # 0
            THEN [table EXCEPT ![i] =
                     [@ EXCEPT !.estimated_time_minutes = estimated_time,
                               !.confidence_score = confidence_score,
                               !.confidence_level = confidence_level,
                               !.estimation_factors = factors]]
            ELSE Append(table,
                        NewEstimation(content_type, content_id,
                                      estimated_time, confidence_score,
                                      confidence_level, factors))
    IN  Put(FindEstimation(table, content_type, content_id))

\* The id of the row _store_estimation returns.
StoredId(table, content_type, content_id) ==
    FindEstimation(table, content_type, content_id)

(***************************************************************************)
(* estimate_pdf_completion_time                                            *)
(***************************************************************************)
NotFound(resource, id) ==
    [kind |-> "NotFound", resource |-> resource, id |-> id]

\* Lines 41-88: the PDF exists.  Returns the tables after the call and the
\* dictionary returned.  The steps, last first: the return value; the store;
\* the adjusted time and the confidence; the context factors; the patterns.
EstimatePdfFound(db, pdf_id, user_context, hour) ==
    LET Return(ptable, p, context_factors, adjusted_time, confidence_score,
               etable) ==
            [db |-> [db EXCEPT !.patterns = ptable, !.estimations = etable],
             res |-> [kind |-> "ok",
                      pdf_id |-> pdf_id,
                      estimated_time_minutes |-> adjusted_time,
                      confidence_score |-> confidence_score,
                      confidence_level |->
                          ScoreToConfidenceLevel(confidence_score),
                      factors |-> context_factors,
                      estimation_id |-> StoredId(etable, PDF, pdf_id),
                      page_count |-> pdfs[pdf_id].page_count,
                      estimated_pages_per_minute |->
                          p.average_speed_pages_per_minute]]
        Store(ptable, p, context_factors, adjusted_time, confidence_score) ==
            Return(ptable, p, context_factors, adjusted_time,
                   confidence_score,
                   StoreEstimation(db.estimations, PDF, pdf_id,
                                   adjusted_time, confidence_score,
                                   ScoreToConfidenceLevel(confidence_score),
                                   context_factors))
        Adjust(ptable, p, context_factors) ==
            Store(ptable, p, context_factors,
                  RMul(CalculateBaseEstimation(PDF, pdfs[pdf_id].page_count,
                                               p),
                       context_factors.total_factor),
                  CalculateConfidence(p.total_study_sessions,
                                      p.consistency_score,
                                      context_factors.total_factor))
        WithPatterns(ptable, p) ==
            Adjust(ptable, p, CalculateContextFactors(user_context, p, hour))
        Fetched(ptable) == WithPatterns(ptable, PatternsRow(ptable, PDF))
    IN  Fetched(GetOrCreatePatterns(db.patterns, PDF))

\* A plausible slip: the patterns are fetched (and created) before the PDF
\* is looked up.
EstimatePdfPatternsFirst(db, pdf_id, user_context, hour) ==
    IF pdf_id \notin DOMAIN pdfs
    THEN [db |-> [db EXCEPT !.patterns = GetOrCreatePatterns(@, PDF)],
          res |-> NotFound("PDF", pdf_id)]
    ELSE EstimatePdfFound(db, pdf_id, user_context, hour)

\* estimate_pdf_completion_time
EstimatePdfCompletionTime(db, pdf_id, user_context, hour) ==
    IF pdf_id \notin DOMAIN pdfs
    THEN [db |-> db, res |-> NotFound("PDF", pdf_id)]
    ELSE EstimatePdfFound(db, pdf_id, user_context, hour)

(***************************************************************************)
(* estimate_topic_completion_time                                          *)
(***************************************************************************)
\* The ids of a set in ascending order: the rows Query.all() returns.
RECURSIVE Ascending(_)
Ascending(S) ==
    IF S = {} THEN <<>>
    ELSE LET Least(m) == <<m>> \o Ascending(S \ {m})
         IN  Least(CHOOSE x \in S : \A y \in S : x <= y)

\* db.query(PDF).filter(PDF.topic_id == topic_id).all()
PdfsOfTopic(topic_id) ==
    Ascending({i \in DOMAIN pdfs : pdfs[i].topic_id = topic_id})

\* A plausible slip: total_time is assigned, not added to.
AddPdfEstimateKeepsLast(acc, r) ==
    [db |-> r.db,
     total_time |-> r.res.estimated_time_minutes,
     pdf_estimates |-> Append(acc.pdf_estimates, r.res),
     confidence_scores |->
         Append(acc.confidence_scores, r.res.confidence_score)]

\* Lines 126-129: one turn of the loop over the PDFs of a topic.
AddPdfEstimate(acc, r) ==
    [db |-> r.db,
     total_time |-> RAdd(acc.total_time, r.res.estimated_time_minutes),
     pdf_estimates |-> Append(acc.pdf_estimates, r.res),
     confidence_scores |->
         Append(acc.confidence_scores, r.res.confidence_score)]

\* Lines 120-129: the loop over the PDFs of a topic.  acc carries the tables,
\* total_time, the estimates and the list of confidence scores.
RECURSIVE EstimateEachPdf(_, _, _, _)
EstimateEachPdf(acc, ids, user_context, hour) ==
    IF ids = <<>> THEN acc
    ELSE EstimateEachPdf(
             AddPdfEstimate(acc,
                            EstimatePdfCompletionTime(acc.db, Head(ids),
                                                      user_context, hour)),
             Tail(ids), user_context, hour)

RECURSIVE RSum(_)
RSum(seq) == IF seq = <<>> THEN Zero ELSE RAdd(Head(seq), RSum(Tail(seq)))

\* statistics.mean of a non-empty list
Mean(seq) == RDiv(RSum(seq), RInt(Len(seq)))

\* Line 145: page_count - completion_percentage/100 * page_count, summed
RemainingPages(ids) ==
    RSum([k \in 1..Len(ids) |->
            RSub(RInt(pdfs[ids[k]].page_count),
                 RMul(Rat(pdfs[ids[k]].completion_percentage, 100),
                      RInt(pdfs[ids[k]].page_count)))])

\* A plausible slip: the branch for a topic without PDFs is left out, and
\* the aggregate of an empty loop is returned (confidence 0.5).
EstimateTopicNoEmptyBranch(db, topic_id, user_context, hour) ==
    LET Return(ids, acc, overall_confidence) ==
            [db |-> acc.db,
             res |-> [kind |-> "ok",
                      topic_id |-> topic_id,
                      estimated_time_minutes |-> acc.total_time,
                      confidence_score |-> overall_confidence,
                      confidence_level |->
                          ScoreToConfidenceLevel(overall_confidence),
                      pdf_count |-> Len(ids),
                      pdf_estimates |-> acc.pdf_estimates,
                      remaining_pages |-> RemainingPages(ids)]]
        Summed(ids, acc) ==
            Return(ids, acc,
                   IF acc.confidence_scores # <<>>
                   THEN Mean(acc.confidence_scores) ELSE Rat(1, 2))
        Found(ids) ==
            Summed(ids,
                   EstimateEachPdf([db |-> db, total_time |-> Zero,
                                    pdf_estimates |-> <<>>,
                                    confidence_scores |-> <<>>],
                                   ids, user_context, hour))
    IN  IF topic_id \notin DOMAIN topics
        THEN [db |-> db, res |-> NotFound("Topic", topic_id)]
        ELSE Found(PdfsOfTopic(topic_id))

\* estimate_topic_completion_time
EstimateTopicCompletionTime(db, topic_id, user_context, hour) ==
    LET Return(ids, acc, overall_confidence) ==
            [db |-> acc.db,
             res |-> [kind |-> "ok",
                      topic_id |-> topic_id,
                      estimated_time_minutes |-> acc.total_time,
                      confidence_score |-> overall_confidence,
                      confidence_level |->
                          ScoreToConfidenceLevel(overall_confidence),
                      pdf_count |-> Len(ids),
                      pdf_estimates |-> acc.pdf_estimates,
                      remaining_pages |-> RemainingPages(ids)]]
        Summed(ids, acc) == Return(ids, acc, Mean(acc.confidence_scores))
        Found(ids) ==
            IF ids = <<>>
            THEN [db |-> db,
                  res |-> [kind |-> "ok",
                           topic_id |-> topic_id,
                           estimated_time_minutes |-> Zero,
                           confidence_level |-> "low",
                           message |-> "No PDFs associated with this topic"]]
            ELSE Summed(ids,
                        EstimateEachPdf([db |-> db, total_time |-> Zero,
                                         pdf_estimates |-> <<>>,
                                         confidence_scores |-> <<>>],
                                        ids, user_context, hour))
    IN  IF topic_id \notin DOMAIN topics
        THEN [db |-> db, res |-> NotFound("Topic", topic_id)]
        ELSE Found(PdfsOfTopic(topic_id))

(***************************************************************************)
(* estimate_app_total_time                                                 *)
(***************************************************************************)
\* The topics the query of lines 162-165 selects.
ActiveTopics == {t \in DOMAIN topics :
                    topics[t].is_active /\ ~topics[t].is_archived}

\* Lines 172-175: one turn of the loop over the topics.  Reading
\* topic_estimate["confidence_score"] raises KeyError when the topic estimate
\* is the no-PDF dictionary, which has no such key.
AddTopicEstimate(acc, r) ==
    IF "confidence_score" \notin DOMAIN r.res
    THEN [acc EXCEPT !.db = r.db, !.raised = "KeyError"]
    ELSE [db |-> r.db,
          total_time |-> RAdd(acc.total_time, r.res.estimated_time_minutes),
          confidence_scores |->
              Append(acc.confidence_scores, r.res.confidence_score),
          raised |-> ""]

\* Lines 171-175: the loop over the topics, in the order the query returned
\* them.  It stops at the first exception; what earlier turns committed
\* stays.
RECURSIVE EstimateEachTopic(_, _, _, _)
EstimateEachTopic(acc, ids, user_context, hour) ==
    IF ids = <<>> \/ acc.raised # "" THEN acc
    ELSE EstimateEachTopic(
             AddTopicEstimate(acc,
                              EstimateTopicCompletionTime(acc.db, Head(ids),
                                                          user_context,
                                                          hour)),
             Tail(ids), user_context, hour)

\* Sum of an integer column over a set of topics.
RECURSIVE SumOver(_, _)
SumOver(S, f) ==
    IF S = {} THEN 0
    ELSE LET Rest(x) == f[x] + SumOver(S \ {x}, f)
         IN  Rest(CHOOSE y \in S : TRUE)

\* estimate_app_total_time; order is the order in which the topics query
\* returned its rows.
EstimateAppTotalTime(db, order, user_context, hour) ==
    LET Return(acc, overall_confidence, total_pages, completed_pages) ==
            [db |-> acc.db,
             res |-> [kind |-> "ok",
                      total_estimated_time_minutes |-> acc.total_time,
                      confidence_score |-> overall_confidence,
                      confidence_level |->
                          ScoreToConfidenceLevel(overall_confidence),
                      topic_count |-> Len(order),
                      total_pages |-> total_pages,
                      completed_pages |-> completed_pages,
                      completion_percentage |->
                          IF total_pages > 0
                          THEN RMul(Rat(completed_pages, total_pages),
                                    RInt(100))
                          ELSE Zero]]
        Looped(acc) ==
            IF acc.raised # ""
            THEN [db |-> acc.db, res |-> [kind |-> acc.raised]]
            ELSE Return(acc,
                        IF acc.confidence_scores # <<>>
                        THEN Mean(acc.confidence_scores) ELSE Rat(1, 2),
                        SumOver(ActiveTopics,
                                [t \in ActiveTopics |->
                                    topics[t].total_pages]),
                        SumOver(ActiveTopics,
                                [t \in ActiveTopics |->
                                    topics[t].completed_pages]))
    IN  Looped(EstimateEachTopic([db |-> db, total_time |-> Zero,
                                  confidence_scores |-> <<>>,
                                  raised |-> ""],
                                 order, user_context, hour))

(***************************************************************************)
(* update_estimation_from_session and its helpers                          *)
(***************************************************************************)
\* Line 487: weight = min(0.1, 1.0 / max(1, total_sessions))
Weight(total_sessions) ==
    RMin(Rat(1, 10), Rat(1, IF total_sessions > 1 THEN total_sessions ELSE 1))

\* A plausible slip: the new observation is added without scaling the old
\* average by (1 - weight).
UpdateReadingPatternsNoDecay(p, reading_speed) ==
    IF RLt(Zero, reading_speed)
    THEN [p EXCEPT
             !.average_speed_pages_per_minute =
                 RAdd(@, RMul(reading_speed, Weight(p.total_study_sessions))),
             !.total_study_sessions = @ + 1,
             !.peak_speed_pages_per_minute =
                 IF RLt(@, reading_speed) THEN reading_speed ELSE @,
             !.minimum_speed_pages_per_minute =
                 IF RLt(reading_speed, @) THEN reading_speed ELSE @]
    ELSE p

\* A plausible slip: the session counter is moved the wrong way.
UpdateReadingPatternsCountDown(p, reading_speed) ==
    IF RLt(Zero, reading_speed)
    THEN [p EXCEPT
             !.average_speed_pages_per_minute =
                 RAdd(RMul(@, RSub(One, Weight(p.total_study_sessions))),
                      RMul(reading_speed, Weight(p.total_study_sessions))),
             !.total_study_sessions = @ - 1,
             !.peak_speed_pages_per_minute =
                 IF RLt(@, reading_speed) THEN reading_speed ELSE @,
             !.minimum_speed_pages_per_minute =
                 IF RLt(reading_speed, @) THEN reading_speed ELSE @]
    ELSE p

\* A plausible slip: the comparison that moves the peak is turned around.
UpdateReadingPatternsPeakSwapped(p, reading_speed) ==
    IF RLt(Zero, reading_speed)
    THEN [p EXCEPT
             !.average_speed_pages_per_minute =
                 RAdd(RMul(@, RSub(One, Weight(p.total_study_sessions))),
                      RMul(reading_speed, Weight(p.total_study_sessions))),
             !.total_study_sessions = @ + 1,
             !.peak_speed_pages_per_minute =
                 IF RLt(reading_speed, @) THEN reading_speed ELSE @,
             !.minimum_speed_pages_per_minute =
                 IF RLt(reading_speed, @) THEN reading_speed ELSE @]
    ELSE p

\* A plausible slip: the weighted observation is subtracted.
UpdateReadingPatternsSubtracts(p, reading_speed) ==
    IF RLt(Zero, reading_speed)
    THEN [p EXCEPT
             !.average_speed_pages_per_minute =
                 RSub(RMul(@, RSub(One, Weight(p.total_study_sessions))),
                      RMul(reading_speed, Weight(p.total_study_sessions))),
             !.total_study_sessions = @ + 1,
             !.peak_speed_pages_per_minute =
                 IF RLt(@, reading_speed) THEN reading_speed ELSE @,
             !.minimum_speed_pages_per_minute =
                 IF RLt(reading_speed, @) THEN reading_speed ELSE @]
    ELSE p

\* _update_reading_patterns: the row after the call
UpdateReadingPatterns(p, reading_speed) ==
    IF RLt(Zero, reading_speed)
    THEN [p EXCEPT
             !.average_speed_pages_per_minute =
                 RAdd(RMul(@, RSub(One, Weight(p.total_study_sessions))),
                      RMul(reading_speed, Weight(p.total_study_sessions))),
             !.total_study_sessions = @ + 1,
             !.peak_speed_pages_per_minute =
                 IF RLt(@, reading_speed) THEN reading_speed ELSE @,
             !.minimum_speed_pages_per_minute =
                 IF RLt(reading_speed, @) THEN reading_speed ELSE @]
    ELSE p

\* The accuracy_score attribute of an EstimationHistory object that
\* calculate_accuracy has not assigned (Python None).
Unset == [n |-> 0, d |-> 0]

\* No EstimationHistory object was built.
NoEntry == [estimation_id |-> None]

\* EstimationHistory.calculate_accuracy: the accuracy_score attribute after
\* the call.  With estimated_time_minutes = 0 the method returns before it
\* assigns the attribute.
CalculateAccuracy(estimated_time_minutes, actual_time_minutes) ==
    IF RIsZero(estimated_time_minutes)
    THEN Unset
    ELSE RDiv(RMin(actual_time_minutes, estimated_time_minutes),
              RMax(actual_time_minutes, estimated_time_minutes))

\* A plausible slip: the measured time is stored in both time columns.
NewHistoryOfActual(i, session_id, estimated_time_minutes, actual_time_minutes) ==
    [estimation_id |-> i,
     session_id |-> session_id,
     estimated_time_minutes |-> actual_time_minutes,
     actual_time_minutes |-> actual_time_minutes,
     accuracy_score |->
         CalculateAccuracy(estimated_time_minutes, actual_time_minutes)]

\* Lines 519-528: the EstimationHistory object built for estimation i.  (The
\* time_of_day and user_energy_level columns, which no operation reads, are
\* left out.)
NewHistory(i, session_id, estimated_time_minutes, actual_time_minutes) ==
    [estimation_id |-> i,
     session_id |-> session_id,
     estimated_time_minutes |-> estimated_time_minutes,
     actual_time_minutes |-> actual_time_minutes,
     accuracy_score |->
         CalculateAccuracy(estimated_time_minutes, actual_time_minutes)]

\* A plausible slip: the entry of the estimation is replaced when it has one.
RecordEstimationAccuracyUpsert(db, content_type, content_id, session_id, actual_time_minutes) ==
    LET Add(entry, old) ==
            IF entry.accuracy_score = Unset
            THEN [history |-> db.history, added |-> entry,
                  raised |-> "IntegrityError"]
            ELSE IF old # 0
            THEN [history |-> [db.history EXCEPT ![old] = entry],
                  added |-> entry, raised |-> ""]
            ELSE [history |-> Append(db.history, entry), added |-> entry,
                  raised |-> ""]
        Found(i) ==
            IF i = 0
            THEN [history |-> db.history, added |-> NoEntry, raised |-> ""]
            ELSE Add(NewHistory(i, session_id,
                                db.estimations[i].estimated_time_minutes,
                                actual_time_minutes),
                     First({k \in DOMAIN db.history :
                                db.history[k].estimation_id = i}))
    IN  Found(FindEstimation(db.estimations, content_type, content_id))

\* _record_estimation_accuracy: the history table after the call, the
\* EstimationHistory object handed to db.add, and the exception of
\* db.commit().  accuracy_score is a NOT NULL column, so committing an
\* object whose accuracy_score is unset raises IntegrityError and stores
\* nothing.
RecordEstimationAccuracy(db, content_type, content_id, session_id, actual_time_minutes) ==
    LET Add(entry) ==
            IF entry.accuracy_score = Unset
            THEN [history |-> db.history, added |-> entry,
                  raised |-> "IntegrityError"]
            ELSE [history |-> Append(db.history, entry), added |-> entry,
                  raised |-> ""]
        Found(i) ==
            IF i = 0
            THEN [history |-> db.history, added |-> NoEntry, raised |-> ""]
            ELSE Add(NewHistory(i, session_id,
                                db.estimations[i].estimated_time_minutes,
                                actual_time_minutes))
    IN  Found(FindEstimation(db.estimations, content_type, content_id))

\* A plausible slip: the branch tests the topic of the session, not its
\* document.
RecalculateAffectedEstimationsByTopic(db, session, hour) ==
    LET WithTopic(r) ==
            IF r.res.kind # "ok"
            THEN [db |-> r.db, updated |-> 0, raised |-> r.res.kind]
            ELSE [db |-> r.db, updated |-> 1, raised |-> ""]
    IN  IF session.topic_id # None
        THEN WithTopic(EstimateTopicCompletionTime(db, session.topic_id,
                                                   <<>>, hour))
        ELSE [db |-> db, updated |-> 0, raised |-> ""]

\* _recalculate_affected_estimations: the tables after the call and the
\* number of entries of the list it returns.  The estimates are made without
\* a user context.
RecalculateAffectedEstimations(db, session, hour) ==
    LET WithTopic(r) ==
            IF r.res.kind # "ok"
            THEN [db |-> r.db, updated |-> 1, raised |-> r.res.kind]
            ELSE [db |-> r.db, updated |-> 2, raised |-> ""]
        WithPdf(r) ==
            IF r.res.kind # "ok"
            THEN [db |-> r.db, updated |-> 0, raised |-> r.res.kind]
            ELSE IF pdfs[session.pdf_id].topic_id # None
            THEN WithTopic(EstimateTopicCompletionTime(
                               r.db, pdfs[session.pdf_id].topic_id, <<>>,
                               hour))
            ELSE [db |-> r.db, updated |-> 1, raised |-> ""]
    IN  IF session.pdf_id # None
        THEN WithPdf(EstimatePdfCompletionTime(db, session.pdf_id, <<>>,
                                               hour))
        ELSE [db |-> db, updated |-> 0, raised |-> ""]

\* A plausible slip: every session that is no longer active is processed.
ProcessesStatusNotActive(status) == status # "active"

\* Line 217: only completed sessions are processed.
ProcessesStatus(status) == status = "completed"

\* Lines 225-227: the patterns table after _get_user_reading_patterns and
\* _update_reading_patterns, both of which commit.
PatternsAfterSession(table, reading_speed) ==
    [i \in DOMAIN table |->
        IF i = FindPatterns(table, PDF)
        THEN UpdateReadingPatterns(table[i], reading_speed)
        ELSE table[i]]

\* update_estimation_from_session
UpdateEstimationFromSession(db, session_id, hour) ==
    LET Return(session, actual_time_minutes, reading_speed, rec, rc) ==
            [db |-> rc.db,
             added |-> rec.added,
             res |-> IF rc.raised # ""
                     THEN [kind |-> rc.raised]
                     ELSE [kind |-> "ok",
                           session_id |-> session_id,
                           actual_time_minutes |-> actual_time_minutes,
                           reading_speed |-> reading_speed,
                           patterns_updated |-> TRUE,
                           estimations_recalculated |-> rc.updated]]
        Recorded(session, actual_time_minutes, reading_speed, db1, rec) ==
            IF rec.raised # ""
            THEN [db |-> db1, added |-> rec.added,
                  res |-> [kind |-> rec.raised]]
            ELSE Return(session, actual_time_minutes, reading_speed, rec,
                        RecalculateAffectedEstimations(
                            [db1 EXCEPT !.history = rec.history], session,
                            hour))
        Updated(session, actual_time_minutes, reading_speed, db1) ==
            Recorded(session, actual_time_minutes, reading_speed, db1,
                     IF session.pdf_id # None
                     THEN RecordEstimationAccuracy(db1, PDF, session.pdf_id,
                                                   session_id,
                                                   actual_time_minutes)
                     ELSE IF session.topic_id # None
                     THEN RecordEstimationAccuracy(db1, TOPIC,
                                                   session.topic_id,
                                                   session_id,
                                                   actual_time_minutes)
                     ELSE [history |-> db1.history, added |-> NoEntry,
                           raised |-> ""])
        Measured(session, actual_time_minutes, reading_speed) ==
            Updated(session, actual_time_minutes, reading_speed,
                    [db EXCEPT !.patterns =
                        PatternsAfterSession(
                            GetOrCreatePatterns(db.patterns, PDF),
                            reading_speed)])
        Timed(session, actual_time_minutes) ==
            Measured(session, actual_time_minutes,
                     IF RLt(Zero, actual_time_minutes)
                     THEN RDiv(RInt(session.pages_covered),
                               actual_time_minutes)
                     ELSE Zero)
        Found(session) ==
            IF ~ProcessesStatus(session.status)
            THEN [db |-> db, added |-> NoEntry,
                  res |-> [kind |-> "ok",
                           message |->
                       "Session must be completed to update estimations"]]
            ELSE Timed(session, Rat(session.active_duration_seconds, 60))
    IN  IF session_id \notin DOMAIN sessions
        THEN [db |-> db, added |-> NoEntry,
              res |-> NotFound("Session", session_id)]
        ELSE Found(sessions[session_id])

(***************************************************************************)
(* POST /estimation/recalculate                                            *)
(***************************************************************************)
\* routes.py lines 106-134: the two loops; an estimate that raises is
\* skipped.  acc carries the tables and the number of estimates listed.
RECURSIVE RecalculateEach(_, _, _, _)
RecalculateEach(acc, content_type, ids, hour) ==
    IF ids = <<>> THEN acc
    ELSE LET Listed(r) ==
                 [db |-> r.db,
                  count |-> IF r.res.kind = "ok" THEN acc.count + 1
                            ELSE acc.count]
         IN  RecalculateEach(
                 Listed(IF content_type = PDF
                        THEN EstimatePdfCompletionTime(acc.db, Head(ids),
                                                       <<>>, hour)
                        ELSE EstimateTopicCompletionTime(acc.db, Head(ids),
                                                         <<>>, hour)),
                 content_type, Tail(ids), hour)

\* recalculate_all_estimations
RecalculateAllEstimations(db, hour) ==
    LET Return(acc) ==
            [db |-> acc.db,
             res |-> [kind |-> "ok", success |-> TRUE,
                      recalculated_count |-> acc.count]]
    IN  Return(RecalculateEach(
                   RecalculateEach(
                       [db |-> db, count |-> 0], PDF,
                       Ascending({i \in DOMAIN pdfs :
                           pdfs[i].processing_status = "completed"}),
                       hour),
                   TOPIC, Ascending(ActiveTopics), hour))

(***************************************************************************)
(* The rows of the tables the estimation service reads but does not write. *)
(***************************************************************************)
\* modules/pdfs/models.py: the columns of PDF the service reads
PdfRow(page_count, topic_id, completion_percentage, processing_status) ==
    [page_count |-> page_count, topic_id |-> topic_id,
     completion_percentage |-> completion_percentage,
     processing_status |-> processing_status]

\* modules/topics/models.py: the columns of Topic the service reads
TopicRow(is_active, is_archived, total_pages, completed_pages) ==
    [is_active |-> is_active, is_archived |-> is_archived,
     total_pages |-> total_pages, completed_pages |-> completed_pages]

\* modules/sessions/models.py: the columns of Session the service reads
SessionRow(status, pdf_id, topic_id, active_duration_seconds, pages_covered) ==
    [status |-> status, pdf_id |-> pdf_id, topic_id |-> topic_id,
     active_duration_seconds |-> active_duration_seconds,
     pages_covered |-> pages_covered]

\* One processed document in one topic, studied in two completed sessions,
\* one of them with no active time.
StudiedDocument ==
    /\ pdfs = <<PdfRow(4, 1, 25, "completed")>>
    /\ topics = <<TopicRow(TRUE, FALSE, 4, 1)>>
    /\ sessions = <<SessionRow("completed", 1, None, 60, 2),
                    SessionRow("completed", 1, None, 0, 1)>>

\* A document whose pages have not been counted (page_count keeps its
\* default 0), a topic without documents, and completed sessions on each.
UnprocessedDocument ==
    /\ pdfs = <<PdfRow(0, None, 0, "pending")>>
    /\ topics = <<TopicRow(TRUE, FALSE, 0, 0)>>
    /\ sessions = <<SessionRow("completed", 1, None, 0, 0),
                    SessionRow("completed", 1, None, 60, 2),
                    SessionRow("completed", None, 1, 120, 1)>>

\* Two documents in one topic, an archived topic, and sessions that are not
\* completed.
TwoDocuments ==
    /\ pdfs = <<PdfRow(4, 1, 150, "completed"), PdfRow(2, 1, 50, "completed")>>
    /\ topics = <<TopicRow(TRUE, FALSE, 6, 7), TopicRow(TRUE, TRUE, 0, 0)>>
    /\ sessions = <<SessionRow("active", 1, None, 60, 2),
                    SessionRow("paused", 2, None, 60, 2),
                    SessionRow("cancelled", 1, None, 60, 2)>>

(***************************************************************************)
(* The inputs of the operations.                                           *)
(***************************************************************************)
\* Every stored id and one that is not stored.
PdfIds == 1..(Len(pdfs) + 1)
TopicIds == 1..(Len(topics) + 1)
SessionIds == 1..(Len(sessions) + 1)

\* datetime.now().hour: two hours of the morning and one of the night
Hours == {3, 9, 10}

\* user_context: none, or a difficulty and an energy level
Contexts == {<<>>, [difficulty |-> "expert", energy_level |-> One]}

\* The branch of get_time_factor an hour falls in.
TimeBucket(hour) ==
    IF 6 <= hour /\ hour < 12 THEN "morning"
    ELSE IF 12 <= hour /\ hour < 18 THEN "afternoon"
    ELSE IF 18 <= hour /\ hour < 24 THEN "evening"
    ELSE "night"

\* The record of an estimate call; again says that the call before it was
\* the same operation on the same id with the same context in the same
\* time bucket.
Estimated(op, id, user_context, hour) ==
    [op |-> op, id |-> id, user_context |-> user_context,
     bucket |-> TimeBucket(hour),
     again |-> /\ call.op = op
               /\ call.id = id
               /\ call.user_context = user_context
               /\ call.bucket = TimeBucket(hour)]

\* The record of a call that takes no context.
Called(op, id) ==
    [op |-> op, id |-> id, user_context |-> <<>>, bucket |-> "none",
     again |-> FALSE]

(***************************************************************************)
(* The state machine.                                                      *)
(***************************************************************************)
Init ==
    /\ StudiedDocument \/ UnprocessedDocument \/ TwoDocuments
    /\ patterns = <<>>
    /\ estimations = <<>>
    /\ history = <<>>
    /\ analytics = <<>>
    /\ running = <<>>
    /\ added = NoEntry
    /\ NoTimers
    /\ call = Called("none", None)
    /\ result = [kind |-> "none"]

\* The tables and the response after an operation returned or raised r.
Commit(r) ==
    /\ patterns' = r.db.patterns
    /\ estimations' = r.db.estimations
    /\ history' = r.db.history
    /\ result' = r.res
    /\ UNCHANGED <<pdfs, topics, sessions, active_timers, utcnow, elapsed, analytics, running>>

\* GET /estimation/pdf/{pdf_id}
EstimatePdf(pdf_id, user_context, hour) ==
    /\ Commit(EstimatePdfCompletionTime(Db, pdf_id, user_context, hour))
    /\ call' = Estimated("estimate_pdf", pdf_id, user_context, hour)
    /\ added' = NoEntry

\* GET /estimation/topic/{topic_id}
EstimateTopic(topic_id, user_context, hour) ==
    /\ Commit(EstimateTopicCompletionTime(Db, topic_id, user_context, hour))
    /\ call' = Estimated("estimate_topic", topic_id, user_context, hour)
    /\ added' = NoEntry

\* GET /estimation/app-total
EstimateAppTotal(order, user_context, hour) ==
    /\ Commit(EstimateAppTotalTime(Db, order, user_context, hour))
    /\ call' = Estimated("estimate_app_total", None, user_context, hour)
    /\ added' = NoEntry

\* POST /estimation/recalculate
RecalculateAll(hour) ==
    /\ Commit(RecalculateAllEstimations(Db, hour))
    /\ call' = Called("recalculate", None)
    /\ added' = NoEntry

\* The tables stay within the bounds of the model.
WithinBounds(db) ==
    /\ Len(db.history) <= MaxHistory
    /\ \A i \in DOMAIN db.patterns :
           db.patterns[i].total_study_sessions <= MaxSessions

\* The state after update_estimation_from_session returned or raised r.
Outcome(session_id, r) ==
    /\ WithinBounds(r.db)
    /\ Commit(r)
    /\ added' = r.added
    /\ call' = Called("record_outcome", session_id)

\* POST /estimation/update-from-session
RecordOutcome(session_id, hour) ==
    Outcome(session_id, UpdateEstimationFromSession(Db, session_id, hour))

\* The orders in which the topics query may return the active topics.
TopicOrders ==
    {o \in [1..Cardinality(ActiveTopics) -> ActiveTopics] :
        \A i, j \in DOMAIN o : i # j => o[i] # o[j]}

Next ==
    \/ \E pdf_id \in PdfIds, user_context \in Contexts, hour \in Hours :
           EstimatePdf(pdf_id, user_context, hour)
    \/ \E topic_id \in TopicIds, user_context \in Contexts, hour \in Hours :
           EstimateTopic(topic_id, user_context, hour)
    \/ \E order \in TopicOrders, user_context \in Contexts, hour \in Hours :
           EstimateAppTotal(order, user_context, hour)
    \/ \E hour \in Hours : RecalculateAll(hour)
    \/ \E session_id \in SessionIds, hour \in Hours :
           RecordOutcome(session_id, hour)

Spec == Init /\ [][Next]_vars

(***************************************************************************)
(* _calculate_confidence on its own: the score of one PatternModel as its  *)
(* session count grows, consistency_score and total_factor held fixed.     *)
(***************************************************************************)
ConsistencyScores == {Zero, Rat(1, 2), One}
TotalFactors == {Rat(1, 4), One, Rat(3, 2), RInt(5)}

\* The confidence part of the dictionary an estimate returns.
Confidence(total_factor, score) ==
    [kind |-> "ok", total_factor |-> total_factor,
     confidence_score |-> score,
     confidence_level |-> ScoreToConfidenceLevel(score)]

\* No documents, topics or sessions, and empty estimation tables.
NoContent ==
    /\ pdfs = <<>>
    /\ topics = <<>>
    /\ sessions = <<>>
    /\ estimations = <<>>
    /\ history = <<>>
    /\ analytics = <<>>
    /\ running = <<>>
    /\ added = NoEntry
    /\ NoTimers

ConfidenceInit ==
    /\ NoContent
    /\ \E c \in ConsistencyScores :
           patterns = <<[NewPatterns(PDF) EXCEPT !.consistency_score = c]>>
    /\ call = Called("calculate_confidence", None)
    /\ \E f \in TotalFactors :
           result = Confidence(f,
                               CalculateConfidence(
                                   patterns[1].total_study_sessions,
                                   patterns[1].consistency_score, f))

\* The score is computed again after one more session was counted.
AnotherSession ==
    /\ patterns[1].total_study_sessions < MaxCount
    /\ patterns' = <<[patterns[1] EXCEPT !.total_study_sessions = @ + 1]>>
    /\ result' = Confidence(result.total_factor,
                            CalculateConfidence(
                                patterns'[1].total_study_sessions,
                                patterns'[1].consistency_score,
                                result.total_factor))
    /\ UNCHANGED <<pdfs, topics, sessions, active_timers, utcnow, elapsed, estimations, history, analytics,
                   running, added, call>>

ConfidenceNext == AnotherSession

ConfidenceSpec == ConfidenceInit /\ [][ConfidenceNext]_vars

(***************************************************************************)
(* _update_reading_patterns on its own: one PatternModel fed the same      *)
(* positive reading speed again and again.                                 *)
(***************************************************************************)
AverageSpeeds == {Rat(1, 2), One, RInt(3)}
SessionCounts == {0, 1, 5, 12}
ReadingSpeeds == {Rat(1, 2), RInt(2), RInt(4)}

SpeedInit ==
    /\ NoContent
    /\ \E a \in AverageSpeeds, n \in SessionCounts :
           patterns = <<[NewPatterns(PDF) EXCEPT
                            !.average_speed_pages_per_minute = a,
                            !.total_study_sessions = n]>>
    /\ call = Called("update_reading_patterns", None)
    /\ \E s \in ReadingSpeeds :
           result = [kind |-> "ok", reading_speed |-> s, observations |-> 0]

\* One more session of the same reading speed is fed to the PatternModel.
ObserveSpeed ==
    /\ result.observations < MaxObservations
    /\ patterns' = <<UpdateReadingPatterns(patterns[1], result.reading_speed)>>
    /\ result' = [result EXCEPT !.observations = @ + 1]
    /\ UNCHANGED <<pdfs, topics, sessions, active_timers, utcnow, elapsed, estimations, history, analytics,
                   running, added, call>>

SpeedNext == ObserveSpeed

SpeedSpec == SpeedInit /\ [][SpeedNext]_vars

(***************************************************************************)
(* Properties                                                              *)
(***************************************************************************)
\* The speed columns of a PatternModel.
Speeds(p) ==
    <<p.average_speed_pages_per_minute, p.peak_speed_pages_per_minute,
      p.minimum_speed_pages_per_minute>>

\* C1: after any sequence of operations the estimation_data table holds at
\* most one record per (content_type, content_id).
C1_OneRecordPerUnit ==
    \A i, j \in DOMAIN estimations :
        (/\ estimations[i].content_type = estimations[j].content_type
         /\ estimations[i].content_id = estimations[j].content_id) => i = j

\* C1 witness: record_outcome found the record of the session's document,
\* logged an entry for it and estimated the document again.
C1_Witness ==
    /\ call.op = "record_outcome"
    /\ result.kind = "ok"
    /\ history # <<>>
    /\ FindEstimation(estimations, PDF, sessions[call.id].pdf_id) # 0

\* The estimation_data table after an estimate of document id wrote exactly
\* one record, the document's, and left every other record as it was.
WroteOneRecord(id) ==
    /\ FindEstimation(estimations', PDF, id) # 0
    /\ IF FindEstimation(estimations, PDF, id) = 0
       THEN /\ Len(estimations') = Len(estimations) + 1
            /\ FindEstimation(estimations', PDF, id) = Len(estimations')
       ELSE /\ Len(estimations') = Len(estimations)
            /\ FindEstimation(estimations', PDF, id)
                   = FindEstimation(estimations, PDF, id)
    /\ \A j \in DOMAIN estimations :
           j # FindEstimation(estimations', PDF, id)
               => estimations'[j] = estimations[j]

\* C2 as the specification states it: an estimate of an existing document
\* writes exactly one record and changes no PatternModel, no history entry
\* and no other record, also when it is the first access for the content
\* type.
C2_NoOtherStateChanges ==
    [][(call'.op = "estimate_pdf" /\ result'.kind = "ok")
           => /\ WroteOneRecord(call'.id)
              /\ history' = history
              /\ patterns' = patterns]_vars

\* C2, amended: an estimate of an existing document writes exactly one
\* record and changes no history entry, no other record and no existing
\* PatternModel; when no PatternModel of the content type exists yet, the
\* call also creates it, with the default values.
C2_WritesOneRecordAndCreatesPatterns ==
    [][(call'.op = "estimate_pdf" /\ result'.kind = "ok")
           => /\ WroteOneRecord(call'.id)
              /\ history' = history
              /\ IF FindPatterns(patterns, PDF) # 0
                 THEN patterns' = patterns
                 ELSE patterns' = Append(patterns, NewPatterns(PDF))]_vars

\* C2 witness: an estimate of a document succeeded while the record of
\* another document and the PatternModel were already stored.
C2_Witness ==
    /\ call.op = "estimate_pdf"
    /\ result.kind = "ok"
    /\ Len(patterns) = 1
    /\ Len(estimations) >= 2

\* C3: record_outcome on a stored session that is not completed returns the
\* message result and leaves the PatternModels, the records and the history
\* unchanged.
C3_NotCompletedIsNoOp ==
    [][(/\ call'.op = "record_outcome"
        /\ call'.id \in DOMAIN sessions
        /\ sessions[call'.id].status # "completed")
           => /\ result'.kind = "ok"
              /\ "message" \in DOMAIN result'
              /\ patterns' = patterns
              /\ estimations' = estimations
              /\ history' = history]_vars

\* C3 witness: record_outcome was called on a paused session whose document
\* has a stored record.
C3_Witness ==
    /\ call.op = "record_outcome"
    /\ call.id \in DOMAIN sessions
    /\ sessions[call.id].status = "paused"
    /\ "message" \in DOMAIN result
    /\ FindEstimation(estimations, PDF, sessions[call.id].pdf_id) # 0

C5_ZeroMinutesSucceeds ==
    [][(/\ call'.op = "record_outcome"
        /\ call'.id \in DOMAIN sessions
        /\ sessions[call'.id].status = "completed"
        /\ sessions[call'.id].active_duration_seconds = 0)
           => /\ result'.kind = "ok"
              /\ \A i \in DOMAIN patterns :
                     Speeds(patterns'[i]) = Speeds(patterns[i])]_vars

\* C6: an estimate for an id that is not stored fails with NotFound and
\* writes nothing.
C6_NotFoundWritesNothing ==
    [][(\/ call'.op = "estimate_pdf" /\ call'.id \notin DOMAIN pdfs
        \/ call'.op = "estimate_topic" /\ call'.id \notin DOMAIN topics)
           => /\ result'.kind = "NotFound"
              /\ patterns' = patterns
              /\ estimations' = estimations
              /\ history' = history]_vars

\* C6 witness: the first call ever made was an estimate of a document that
\* does not exist.
C6_Witness ==
    /\ call.op = "estimate_pdf"
    /\ call.id \notin DOMAIN pdfs
    /\ result.kind = "NotFound"
    /\ patterns = <<>>

\* C7: an estimate that repeats the call before it (same document, same
\* context, same time bucket) returns what that call returned and leaves
\* the stored records as that call left them.
C7_EstimateIdempotent ==
    [][(/\ call'.op = "estimate_pdf"
        /\ call'.again
        /\ result.kind = "ok")
           => /\ result' = result
              /\ estimations' = estimations
              /\ patterns' = patterns]_vars

\* C7 witness: an estimate with a context repeated the call before it.
C7_Witness ==
    /\ call.op = "estimate_pdf"
    /\ call.again
    /\ call.user_context # <<>>
    /\ result.kind = "ok"
    /\ ~RIsZero(result.estimated_time_minutes)

\* C8: the confidence score lies in [0, 1], and does not decrease when the
\* session count grows.
C8_ConfidenceBoundedMonotone ==
    /\ [](RLe(Zero, result.confidence_score)
          /\ RLe(result.confidence_score, One))
    /\ [][RLe(result.confidence_score, result'.confidence_score)]_vars

\* C8 witness: past 30 sessions, with full consistency and a neutral
\* context, the sum of the parts exceeds 1 and the score is 1.
C8_Witness ==
    /\ call.op = "calculate_confidence"
    /\ patterns[1].total_study_sessions > 30
    /\ patterns[1].consistency_score = One
    /\ result.total_factor = One
    /\ result.confidence_score = One

\* C9 as the specification states it: every history entry record_outcome
\* builds carries a defined accuracy_score in [0, 1], equal to
\* min(estimated, actual) / max(estimated, actual) whenever that quotient
\* is defined.
C9_AccuracyDefined ==
    added # NoEntry
        => /\ added.accuracy_score # Unset
           /\ RLe(Zero, added.accuracy_score)
           /\ RLe(added.accuracy_score, One)
           /\ ~RIsZero(RMax(added.estimated_time_minutes,
                            added.actual_time_minutes))
                  => added.accuracy_score
                         = RDiv(RMin(added.estimated_time_minutes,
                                     added.actual_time_minutes),
                                RMax(added.estimated_time_minutes,
                                     added.actual_time_minutes))

\* The distance between a PatternModel's average speed and the speed s.
Distance(p, s) == RAbs(RSub(p.average_speed_pages_per_minute, s))

\* C10: each time the same positive speed s is fed, the average speed gets
\* no farther from s and stays on its side of s.
C10_AverageApproachesSpeed ==
    [][/\ RLe(Distance(patterns'[1], result.reading_speed),
              Distance(patterns[1], result.reading_speed))
       /\ RLe(patterns[1].average_speed_pages_per_minute,
              result.reading_speed)
              => RLe(patterns'[1].average_speed_pages_per_minute,
                     result.reading_speed)
       /\ RLe(result.reading_speed,
              patterns[1].average_speed_pages_per_minute)
              => RLe(result.reading_speed,
                     patterns'[1].average_speed_pages_per_minute)]_vars

\* C10 witness: after more than ten sessions the same speed was fed twice
\* and the average has moved but not reached it.
C10_Witness ==
    /\ call.op = "update_reading_patterns"
    /\ result.observations >= 2
    /\ patterns[1].total_study_sessions > 12
    /\ patterns[1].average_speed_pages_per_minute # result.reading_speed
    /\ patterns[1].average_speed_pages_per_minute \notin AverageSpeeds

\* The estimated times and the confidence scores of the document estimates
\* a topic estimate lists.
ChildTimes(res) ==
    [k \in DOMAIN res.pdf_estimates |->
        res.pdf_estimates[k].estimated_time_minutes]
ChildConfidences(res) ==
    [k \in DOMAIN res.pdf_estimates |->
        res.pdf_estimates[k].confidence_score]

\* The record stored for the document of a document estimate.
RecordOf(est) == estimations[FindEstimation(estimations, PDF, est.pdf_id)]

\* C11: an estimate of a topic with at least one document lists one
\* estimate per document, each the one stored for that document and all
\* made with the same context factors, and returns the sum of their times
\* and the mean of their confidence scores.
C11_TopicSumsAndAverages ==
    (/\ call.op = "estimate_topic"
     /\ call.id \in DOMAIN topics
     /\ PdfsOfTopic(call.id) # <<>>)
        => /\ result.kind = "ok"
           /\ "pdf_estimates" \in DOMAIN result
           /\ Len(result.pdf_estimates) = Len(PdfsOfTopic(call.id))
           /\ \A k \in DOMAIN result.pdf_estimates :
                  /\ result.pdf_estimates[k].pdf_id = PdfsOfTopic(call.id)[k]
                  /\ result.pdf_estimates[k].factors
                         = result.pdf_estimates[1].factors
                  /\ RecordOf(result.pdf_estimates[k]).estimated_time_minutes
                         = result.pdf_estimates[k].estimated_time_minutes
                  /\ RecordOf(result.pdf_estimates[k]).confidence_score
                         = result.pdf_estimates[k].confidence_score
           /\ result.estimated_time_minutes = RSum(ChildTimes(result))
           /\ result.confidence_score = Mean(ChildConfidences(result))

\* C11 witness: a topic of two documents with different times was estimated
\* with a context.
C11_Witness ==
    /\ call.op = "estimate_topic"
    /\ call.user_context # <<>>
    /\ result.kind = "ok"
    /\ "pdf_estimates" \in DOMAIN result
    /\ Len(result.pdf_estimates) = 2
    /\ result.pdf_estimates[1].estimated_time_minutes
           # result.pdf_estimates[2].estimated_time_minutes

\* C12: an estimate of a stored topic without documents returns time 0 and
\* the message that marks the empty topic, and writes nothing.
C12_EmptyTopicIsMarked ==
    [][(/\ call'.op = "estimate_topic"
        /\ call'.id \in DOMAIN topics
        /\ PdfsOfTopic(call'.id) = <<>>)
           => /\ result'.kind = "ok"
              /\ result'.estimated_time_minutes = Zero
              /\ "message" \in DOMAIN result'
              /\ estimations' = estimations
              /\ patterns' = patterns
              /\ history' = history]_vars

\* C12 witness: a topic without documents was estimated while the record of
\* a document is stored.
C12_Witness ==
    /\ call.op = "estimate_topic"
    /\ call.id \in DOMAIN topics
    /\ PdfsOfTopic(call.id) = <<>>
    /\ "message" \in DOMAIN result
    /\ estimations # <<>>

\* C13 as the specification states it: the estimate over all active topics
\* returns a result whatever the topics hold, a topic without documents
\* counting 0.
C13_AppTotalAlwaysReturns ==
    [][call'.op = "estimate_app_total"
           => /\ result'.kind = "ok"
              /\ "total_estimated_time_minutes" \in DOMAIN result']_vars

\* max(0, page_count - completed pages) summed over documents
RECURSIVE ClampedRemaining(_)
ClampedRemaining(ids) ==
    IF ids = <<>> THEN Zero
    ELSE RAdd(RMax(Zero,
                   RSub(RInt(pdfs[Head(ids)].page_count),
                        RMul(Rat(pdfs[Head(ids)].completion_percentage, 100),
                             RInt(pdfs[Head(ids)].page_count)))),
              ClampedRemaining(Tail(ids)))

MaxWindow == 10

\* modules/sessions/models.py: the columns of Session the analytics service
\* reads; age_days is how long before the call start_time lies.
SessionMetrics(status, age_days, total_duration_seconds, break_duration_seconds, focus_score, productivity_score, reading_speed) ==
    [status |-> status, age_days |-> age_days,
     total_duration_seconds |-> total_duration_seconds,
     active_duration_seconds |->
         total_duration_seconds - break_duration_seconds,
     break_duration_seconds |-> break_duration_seconds,
     focus_score |-> focus_score,
     productivity_score |-> productivity_score,
     reading_speed |-> reading_speed]

\* The positions S of a table in the order of the table (Query.all()).
InOrder(S) ==
    [k \in 1..Cardinality(S) |->
        CHOOSE i \in S : Cardinality({j \in S : j < i}) = k - 1]

\* Lines 299-302: the completed sessions that started within the last days
\* days, in the order of the table.
RecentSessions(table, days) ==
    LET Rows(ids) == [k \in 1..Len(ids) |-> table[ids[k]]]
    IN  Rows(InOrder({i \in DOMAIN table :
                           /\ table[i].age_days <= days
                           /\ table[i].status = "completed"}))

\* Line 310
LowProductivitySessions(window) ==
    {i \in DOMAIN window : window[i].productivity_score < 50}

\* Lines 311-322: len(low) > len(sessions) * 0.3
LowProductivity(window) ==
    IF 10 * Cardinality(LowProductivitySessions(window)) > 3 * Len(window)
    THEN <<[type |-> "low_productivity", severity |-> "high",
            affected_sessions |->
                Cardinality(LowProductivitySessions(window))]>>
    ELSE <<>>

\* Line 325
ReadingSpeedsOf(window) ==
    LET Pick(ids) == [k \in 1..Len(ids) |-> window[ids[k]].reading_speed]
    IN  Pick(InOrder({i \in DOMAIN window :
                         RLt(Zero, window[i].reading_speed)}))

\* max(values) and min(values) of a non-empty list
Largest(values) ==
    values[CHOOSE i \in DOMAIN values :
               \A j \in DOMAIN values : RLe(values[j], values[i])]

Smallest(values) ==
    values[CHOOSE i \in DOMAIN values :
               \A j \in DOMAIN values : RLe(values[i], values[j])]

\* sum(values[lo..hi]), added up by halves
RECURSIVE SumRange(_, _, _)
SumRange(values, lo, hi) ==
    IF lo > hi THEN Zero
    ELSE IF lo = hi THEN values[lo]
    ELSE RAdd(SumRange(values, lo, (lo + hi) \div 2),
              SumRange(values, (lo + hi) \div 2 + 1, hi))

\* _calculate_trend: the least-squares slope over x = 0..n-1, divided by
\* (max - min) / n and clamped to [-1, 1]
CalculateTrend(values) ==
    LET Clamped(normalized_slope) ==
            RMax(RInt(0 - 1), RMin(One, normalized_slope))
        Normalized(n, slope, max_change) ==
            IF RIsZero(max_change) THEN Zero
            ELSE Clamped(RDiv(slope, RDiv(max_change, RInt(n))))
        Slope(n, sum_x, sum_y, sum_xy, sum_x2) ==
            IF n * sum_x2 - sum_x * sum_x = 0 THEN Zero
            ELSE Normalized(n,
                            RDiv(RSub(RMul(RInt(n), sum_xy),
                                      RMul(RInt(sum_x), sum_y)),
                                 RInt(n * sum_x2 - sum_x * sum_x)),
                            RSub(Largest(values), Smallest(values)))
        Sums(n) ==
            Slope(n,
                  SumOver(0..(n - 1), [x \in 0..(n - 1) |-> x]),
                  SumRange(values, 1, n),
                  SumRange([k \in 1..n |-> RMul(RInt(k - 1), values[k])],
                           1, n),
                  SumOver(0..(n - 1), [x \in 0..(n - 1) |-> x * x]))
    IN  IF Len(values) < 2 THEN Zero ELSE Sums(Len(values))

\* Lines 326-339
DecliningSpeed(window) ==
    IF /\ ReadingSpeedsOf(window) # <<>>
       /\ RLt(CalculateTrend(ReadingSpeedsOf(window)), Rat(0 - 1, 10))
    THEN <<[type |-> "declining_speed", severity |-> "medium"]>>
    ELSE <<>>

\* Line 342
FocusScores(window) ==
    LET Pick(ids) == [k \in 1..Len(ids) |-> window[ids[k]].focus_score]
    IN  Pick(InOrder({i \in DOMAIN window : window[i].focus_score > 0}))

\* sum of a list of integers
Total(values) == SumOver(DOMAIN values, values)

\* Lines 344-345 for two or more positive scores:
\* 1 - stdev/mean < 0.6, that is stdev > 0.4 * mean; with s the sum and q
\* the sum of squares of the n scores the sample variance is
\* (n*q - s*s) / (n*(n-1)) and the mean is s/n, so the test is
\* 25 * n * (n*q - s*s) > 4 * (n-1) * s*s.
FocusConsistencyBelow60(focus_scores) ==
    LET Test(n, s, q) == 25 * n * (n * q - s * s) > 4 * (n - 1) * s * s
    IN  Test(Len(focus_scores), Total(focus_scores),
             Total([k \in 1..Len(focus_scores) |->
                       focus_scores[k] * focus_scores[k]]))

\* Lines 343-356, reached with two or more positive focus scores or none
InconsistentFocus(window) ==
    IF /\ FocusScores(window) # <<>>
       /\ FocusConsistencyBelow60(FocusScores(window))
    THEN <<[type |-> "inconsistent_focus", severity |-> "medium"]>>
    ELSE <<>>

\* Lines 359-360: the mean of total_duration_seconds / 60
AverageLength(window) ==
    Rat(Total([k \in 1..Len(window) |-> window[k].total_duration_seconds]),
        60 * Len(window))

\* Lines 362-385
SessionLength(window) ==
    IF RLt(RInt(120), AverageLength(window))
    THEN <<[type |-> "excessive_session_length", severity |-> "medium"]>>
    ELSE IF RLt(AverageLength(window), RInt(30))
    THEN <<[type |-> "insufficient_session_length", severity |-> "low"]>>
    ELSE <<>>

\* Lines 388-390
SeverityCount(bottlenecks, severity) ==
    Cardinality({k \in DOMAIN bottlenecks :
                    bottlenecks[k].severity = severity})

\* Lines 392-398
OverallHealth(bottlenecks) ==
    IF SeverityCount(bottlenecks, "high") > 0 THEN "needs_attention"
    ELSE IF SeverityCount(bottlenecks, "medium") > 1
    THEN "room_for_improvement"
    ELSE IF \/ SeverityCount(bottlenecks, "medium") > 0
            \/ SeverityCount(bottlenecks, "low") > 0
    THEN "good"
    ELSE "excellent"

\* identify_learning_bottlenecks.  statistics.stdev at line 344 raises
\* StatisticsError when it is given a single value; the except clause logs
\* and raises again.
IdentifyLearningBottlenecks(table, days) ==
    LET Assess(window, bottlenecks) ==
            [kind |-> "ok",
             analysis_period_days |-> days,
             sessions_analyzed |-> Len(window),
             overall_health |-> OverallHealth(bottlenecks),
             bottlenecks_found |-> Len(bottlenecks),
             bottlenecks |-> bottlenecks]
        Analyse(window) ==
            IF window = <<>> THEN [kind |-> "message"]
            ELSE IF Len(FocusScores(window)) = 1
            THEN [kind |-> "StatisticsError"]
            ELSE Assess(window,
                        LowProductivity(window) \o DecliningSpeed(window)
                            \o InconsistentFocus(window)
                            \o SessionLength(window))
    IN  Analyse(RecentSessions(table, days))

\* The sessions the windows are drawn from.
Struggling == SessionMetrics("completed", 1, 2700, 300, 0, 40, Rat(1, 2))
Focused == SessionMetrics("completed", 2, 3600, 600, 90, 80, RInt(2))
Distracted == SessionMetrics("completed", 10, 9000, 0, 30, 70, One)
Dropped == SessionMetrics("cancelled", 1, 600, 0, 20, 10, Rat(1, 4))
LastQuarter == SessionMetrics("completed", 90, 600, 0, 20, 10, Rat(1, 4))

Repeat(row, n) == [k \in 1..n |-> row]

Reversed(seq) == [k \in 1..Len(seq) |-> seq[Len(seq) + 1 - k]]

AnalysisDays == {7, 30}

\* Any number of sessions of each kind, oldest kind first or last, with or
\* without sessions that are outside every window.
BottleneckInit ==
    /\ pdfs = <<>>
    /\ topics = <<>>
    /\ patterns = <<>>
    /\ estimations = <<>>
    /\ history = <<>>
    /\ analytics = <<>>
    /\ running = <<>>
    /\ added = NoEntry
    /\ NoTimers
    /\ call = Called("none", None)
    /\ result = [kind |-> "none"]
    /\ \E a \in 0..MaxWindow :
         \E b \in 0..(MaxWindow - a) :
           \E c \in 0..(MaxWindow - a - b) :
             \E outside \in {<<>>, <<Dropped, LastQuarter>>} :
               \E table \in {Repeat(Struggling, a) \o Repeat(Focused, b)
                                 \o Repeat(Distracted, c) \o outside} :
                   sessions \in {table, Reversed(table)}

\* GET /analytics/bottlenecks?days=...
DetectBottlenecks(days) ==
    /\ call' = Called("detect_bottlenecks", days)
    /\ result' = IdentifyLearningBottlenecks(sessions, days)
    /\ UNCHANGED <<pdfs, topics, sessions, active_timers, utcnow, elapsed, patterns, estimations, history,
                   analytics, running, added>>

BottleneckNext == \E days \in AnalysisDays : DetectBottlenecks(days)

BottleneckSpec == BottleneckInit /\ [][BottleneckNext]_vars

\* The window a detect_bottlenecks call analysed.
Window == RecentSessions(sessions, call.id)

MaxAnalysed == 2

\* int(x) of a non-negative float
Truncated(x) == x.n \div x.d

\* _analyze_focus_patterns, active time > 0: the periods list
FocusPeriods(session, total_duration, avg_focus_period) ==
    [i \in 1..(IF Truncated(RDiv(total_duration, avg_focus_period)) > 1
               THEN Truncated(RDiv(total_duration, avg_focus_period)) ELSE 1) |->
        [start_minute |-> RMul(RInt(i - 1), avg_focus_period),
         duration |-> RMul(avg_focus_period,
                           RAdd(Rat(8, 10),
                                RMul(Rat(4, 10),
                                     Rat(session.focus_score, 100)))),
         intensity |-> RAdd(Rat(6, 10),
                            RMul(Rat(4, 10),
                                 Rat(session.focus_score, 100)))]]

\* _analyze_focus_patterns, active time > 0: the distractions list of
\* distraction_count entries
Distractions(total_duration, distraction_count) ==
    [i \in 1..distraction_count |->
        [minute |-> RMul(RInt(i - 1),
                         RDiv(total_duration,
                              RInt(IF distraction_count > 1
                                   THEN distraction_count ELSE 1))),
         duration |-> Rat(3, 2),
         type |-> "unknown"]]

\* _analyze_focus_patterns
AnalyzeFocusPatterns(session) ==
    LET Analysis(periods, distractions) ==
            [periods |-> periods,
             distractions |-> distractions,
             score |-> Rat(session.focus_score, 100),
             average_duration |-> periods[1].duration]
        Focus(total_duration) ==
            IF RLt(Zero, total_duration)
            THEN Analysis(FocusPeriods(session, total_duration,
                                       RMin(RInt(25),
                                            RDiv(total_duration, RInt(3)))),
                          Distractions(total_duration,
                                       Truncated(RDiv(RMul(RSub(One,
                                                          Rat(session.focus_score,
                                                              100)),
                                                     total_duration),
                                                RInt(10)))))
            ELSE [periods |-> <<>>, distractions |-> <<>>,
                  score |-> Zero, average_duration |-> Zero]
    IN  Focus(Rat(session.active_duration_seconds, 60))

\* _analyze_productivity
AnalyzeProductivity(session) ==
    [score |-> Rat(session.productivity_score, 100),
     rating |-> IF session.productivity_score >= 80 THEN "excellent"
                ELSE IF session.productivity_score >= 60 THEN "good"
                ELSE IF session.productivity_score >= 40 THEN "fair"
                ELSE "poor",
     actual_speed |-> session.reading_speed,
     target_speed |-> One,
     efficiency_ratio |-> session.reading_speed]

\* _analyze_break_patterns
AnalyzeBreakPatterns(session) ==
    LET Breaks(total_time, break_time, estimated_breaks) ==
            [frequency_score |->
                 RMax(Zero,
                      RMin(One,
                           RSub(One,
                                RDiv(RAbs(RSub(RDiv(break_time, total_time),
                                               Rat(2, 10))),
                                     Rat(2, 10))))),
             average_duration |-> RDiv(break_time, RInt(estimated_breaks)),
             timing_score |-> IF RLt(RInt(60), total_time)
                              THEN Rat(8, 10) ELSE Rat(6, 10)]
    IN  IF session.total_duration_seconds > 0
        THEN Breaks(Rat(session.total_duration_seconds, 60),
                    Rat(session.break_duration_seconds, 60),
                    IF session.break_duration_seconds \div 300 > 1
                    THEN session.break_duration_seconds \div 300 ELSE 1)
        ELSE [frequency_score |-> Rat(1, 2), average_duration |-> Zero,
              timing_score |-> Rat(1, 2)]

\* _calculate_session_consistency
CalculateSessionConsistency(session) ==
    RMin(One, RAdd(Rat(7, 10),
                   RMul(Rat(session.productivity_score, 100), Rat(3, 10))))

\* Lines 625-629: the completed sessions of the last 7 days other than the
\* analysed one, most recent first, at most 10 of them
RECURSIVE MostRecentFirst(_, _)
MostRecentFirst(table, ids) ==
    IF ids = {} THEN <<>>
    ELSE LET Next1(m) == <<table[m]>> \o MostRecentFirst(table, ids \ {m})
         IN  Next1(CHOOSE i \in ids :
                      \A j \in ids :
                          \/ table[i].age_days < table[j].age_days
                          \/ /\ table[i].age_days = table[j].age_days
                             /\ i <= j)

RecentOtherSessions(table, session_id) ==
    LET Limit(rows) ==
            SubSeq(rows, 1, IF Len(rows) < 10 THEN Len(rows) ELSE 10)
    IN  Limit(MostRecentFirst(table,
                              {i \in DOMAIN table :
                                  /\ table[i].age_days <= 7
                                  /\ table[i].status = "completed"
                                  /\ i # session_id}))

\* _analyze_improvement_indicators; statistics.mean at line 636 raises
\* StatisticsError when none of the recent sessions has a positive
\* reading speed.
AnalyzeImprovementIndicators(table, session_id) ==
    LET Indicators(session, recent_productivity, recent_focus, recent_speed) ==
            [raised |-> "none",
             productivity_improvement |->
                 RSub(RInt(session.productivity_score), recent_productivity),
             focus_improvement |->
                 RSub(RInt(session.focus_score), recent_focus),
             speed_improvement |->
                 RSub(session.reading_speed, recent_speed),
             trend |-> IF RLt(recent_productivity,
                              RInt(session.productivity_score))
                       THEN "improving" ELSE "stable"]
        Compare(recent_sessions) ==
            IF recent_sessions = <<>>
            THEN [raised |-> "none", trend |-> "insufficient_data"]
            ELSE IF ReadingSpeedsOf(recent_sessions) = <<>>
            THEN [raised |-> "StatisticsError"]
            ELSE Indicators(table[session_id],
                            Rat(Total([k \in 1..Len(recent_sessions) |->
                                          recent_sessions[k].productivity_score]),
                                Len(recent_sessions)),
                            Rat(Total([k \in 1..Len(recent_sessions) |->
                                          recent_sessions[k].focus_score]),
                                Len(recent_sessions)),
                            Mean(ReadingSpeedsOf(recent_sessions)))
    IN  Compare(RecentOtherSessions(table, session_id))

\* _analyze_fatigue_indicators; a key that is not set is FALSE
AnalyzeFatigueIndicators(session) ==
    [excessive_length |-> session.total_duration_seconds > 120 * 60,
     fatigue_risk |-> IF session.total_duration_seconds > 120 * 60
                      THEN "high"
                      ELSE IF session.total_duration_seconds > 90 * 60
                      THEN "medium" ELSE "low",
     low_productivity |-> session.productivity_score < 50,
     focus_issues |-> session.focus_score < 50]

\* _generate_optimization_suggestions; each suggestion is named by its
\* opening words
GenerateOptimizationSuggestions(session, row) ==
    LET AtMost5(suggestions) ==
            SubSeq(suggestions, 1,
                   IF Len(suggestions) < 5 THEN Len(suggestions) ELSE 5)
    IN  AtMost5(
            (IF RLt(row.focus_score, Rat(6, 10))
             THEN <<"Try the Pomodoro technique",
                    "Eliminate distractions">> ELSE <<>>)
            \o (IF RLt(row.productivity_score, Rat(1, 2))
                THEN <<"Consider studying during your peak energy hours",
                       "Break large tasks into smaller chunks">> ELSE <<>>)
            \o (IF RLt(row.pages_per_minute_actual,
                       RMul(row.pages_per_minute_target, Rat(8, 10)))
                THEN <<"Practice active reading techniques",
                       "Preview material before detailed reading">>
                ELSE <<>>)
            \o (IF RLt(row.break_frequency_score, Rat(6, 10))
                THEN <<"Take regular breaks">> ELSE <<>>)
            \o (IF RLt(RInt(10), row.break_duration_average)
                THEN <<"Keep breaks shorter">> ELSE <<>>)
            \o (IF session.total_duration_seconds > 120 * 60
                THEN <<"Consider shorter study sessions">>
                ELSE IF session.total_duration_seconds < 30 * 60
                THEN <<"Try longer study sessions">> ELSE <<>>))

\* db.query(SessionAnalytics).filter(session_id == ...).first()
FindAnalytics(table, session_id) ==
    First({i \in DOMAIN table : table[i].session_id = session_id})

\* Lines 44-70: the columns of the SessionAnalytics row before the
\* suggestions are made; calculated_at is left out.
Analysed(session, session_id, focus_analysis, productivity_analysis, break_analysis) ==
    [session_id |-> session_id,
     focus_periods |-> focus_analysis.periods,
     distraction_events |-> focus_analysis.distractions,
     focus_score |-> focus_analysis.score,
     average_focus_duration |-> focus_analysis.average_duration,
     productivity_score |-> productivity_analysis.score,
     efficiency_rating |-> productivity_analysis.rating,
     pages_per_minute_actual |-> productivity_analysis.actual_speed,
     pages_per_minute_target |-> productivity_analysis.target_speed,
     break_frequency_score |-> break_analysis.frequency_score,
     break_duration_average |-> break_analysis.average_duration,
     break_timing_score |-> break_analysis.timing_score,
     consistency_score |-> CalculateSessionConsistency(session),
     fatigue_indicators |-> AnalyzeFatigueIndicators(session)]

\* Lines 39-45 and 77: the row replaces the stored one of its session, or
\* is inserted
StoreAnalytics(table, row, found) ==
    IF found = None THEN Append(table, row)
    ELSE [table EXCEPT ![found] = row]

\* analyze_session.  An exception leaves the transaction uncommitted, so
\* the table keeps its rows.
AnalyzeSession(table, stored, session_id) ==
    LET Return(row, focus_analysis, productivity_analysis, break_analysis) ==
            [analytics |-> StoreAnalytics(stored, row,
                                          FindAnalytics(stored, session_id)),
             res |-> [kind |-> "ok",
                      session_id |-> session_id,
                      analytics |-> row,
                      focus_analysis |-> focus_analysis,
                      productivity_analysis |-> productivity_analysis,
                      break_analysis |-> break_analysis,
                      suggestions |-> row.optimization_suggestions]]
        Suggest(session, row, indicators, focus_analysis, productivity_analysis, break_analysis) ==
            IF indicators.raised # "none"
            THEN [analytics |-> stored,
                  res |-> [kind |-> indicators.raised]]
            ELSE Return(row @@ [improvement_indicators |-> indicators,
                                optimization_suggestions |->
                                    GenerateOptimizationSuggestions(session,
                                                                    row)],
                        focus_analysis, productivity_analysis,
                        break_analysis)
        Analyse(session, focus_analysis, productivity_analysis, break_analysis) ==
            Suggest(session,
                    Analysed(session, session_id, focus_analysis,
                             productivity_analysis, break_analysis),
                    AnalyzeImprovementIndicators(table, session_id),
                    focus_analysis, productivity_analysis, break_analysis)
    IN  IF session_id \notin DOMAIN table
        THEN [analytics |-> stored, res |-> NotFound("Session", session_id)]
        ELSE Analyse(table[session_id],
                     AnalyzeFocusPatterns(table[session_id]),
                     AnalyzeProductivity(table[session_id]),
                     AnalyzeBreakPatterns(table[session_id]))

\* A completed session without any activity recorded.
Idle == SessionMetrics("completed", 1, 0, 0, 0, 0, Zero)

SessionKinds == {Struggling, Focused, Distracted, Dropped, LastQuarter, Idle}

\* Up to MaxAnalysed sessions of any kind, none of them analysed.
AnalysisInit ==
    /\ pdfs = <<>>
    /\ topics = <<>>
    /\ patterns = <<>>
    /\ estimations = <<>>
    /\ history = <<>>
    /\ analytics = <<>>
    /\ running = <<>>
    /\ added = NoEntry
    /\ NoTimers
    /\ call = Called("none", None)
    /\ result = [kind |-> "none"]
    /\ \E n \in 1..MaxAnalysed : sessions \in [1..n -> SessionKinds]

\* GET /analytics/sessions/{session_id}/analytics
AnalyzeSessionCall(session_id) ==
    LET Done(r) ==
            /\ analytics' = r.analytics
            /\ result' = r.res
    IN  /\ call' = [Called("analyze_session", session_id) EXCEPT
                       !.again = /\ call.op = "analyze_session"
                                 /\ call.id = session_id]
        /\ Done(AnalyzeSession(sessions, analytics, session_id))
        /\ UNCHANGED <<pdfs, topics, sessions, active_timers, utcnow, elapsed, patterns, estimations,
                       history, running, added>>

AnalysisNext == \E session_id \in SessionIds : AnalyzeSessionCall(session_id)

AnalysisSpec == AnalysisInit /\ [][AnalysisNext]_vars

\* The scores, the rating and the suggestions of an analysis.
Scores(res) ==
    <<res.analytics.focus_score, res.analytics.productivity_score,
      res.analytics.break_frequency_score, res.analytics.break_timing_score,
      res.analytics.break_duration_average, res.analytics.consistency_score,
      res.analytics.efficiency_rating, res.suggestions>>

\* C17 as the specification states it: after analyze_session was called for
\* a stored session there is exactly one SessionAnalytics record of that
\* session, and a call repeated on unchanged data returns the scores, the
\* rating and the suggestions of the call before it.
C17_AnalyzeSessionIdempotent ==
    [][(/\ call'.op = "analyze_session"
        /\ call'.id \in DOMAIN sessions)
           => /\ result'.kind = "ok"
              /\ Cardinality({i \in DOMAIN analytics' :
                                 analytics'[i].session_id = call'.id}) = 1
              /\ call'.again => Scores(result') = Scores(result)]_vars

\* The time-of-day and difficulty multipliers of a PatternModel.
Multipliers(p) ==
    {p.morning_performance_factor, p.afternoon_performance_factor,
     p.evening_performance_factor, p.night_performance_factor,
     p.beginner_adjustment, p.intermediate_adjustment,
     p.advanced_adjustment, p.expert_adjustment}

\* C18: every PatternModel has a session count of at least 0 and strictly
\* positive time-of-day and difficulty multipliers, and no operation
\* removes a PatternModel or decreases its session count.
C18_SessionCountNeverDecreases ==
    /\ [](\A i \in DOMAIN patterns :
              /\ patterns[i].total_study_sessions >= 0
              /\ \A f \in Multipliers(patterns[i]) : RLt(Zero, f))
    /\ [][/\ Len(patterns') >= Len(patterns)
          /\ \A i \in DOMAIN patterns :
                 /\ patterns'[i].content_type = patterns[i].content_type
                 /\ patterns'[i].total_study_sessions
                        >= patterns[i].total_study_sessions]_vars

\* C18 witness: the outcome of a session was recorded and counted in the
\* PatternModel of its content type.
C18_Witness ==
    /\ call.op = "record_outcome"
    /\ \E i \in DOMAIN patterns : patterns[i].total_study_sessions >= 1

(***************************************************************************)
(* _get_user_reading_patterns under requests that overlap.  Each request   *)
(* has its own database session (get_db); the look-up and the insert are   *)
(* two statements, and user_reading_patterns has no unique constraint on   *)
(* content_type, so a second request can run its look-up between them     *)
(* when requests are served by more than one thread or process.            *)
(***************************************************************************)
MaxWorkers == 3

Workers == 1..MaxWorkers

\* A worker that is not serving a request.
Waiting == [pc |-> "waiting", requested |-> "none", found |-> None]

ConcurrentInit ==
    /\ pdfs = <<>>
    /\ topics = <<>>
    /\ sessions = <<>>
    /\ patterns = <<>>
    /\ estimations = <<>>
    /\ history = <<>>
    /\ analytics = <<>>
    /\ running = [w \in Workers |-> Waiting]
    /\ added = NoEntry
    /\ NoTimers
    /\ call = Called("none", None)
    /\ result = [kind |-> "none"]

\* GET /estimation/user-patterns?content_type=...: every requested type is
\* looked up as ContentType.PDF (routes.py line 200).  Lines 317-319 of the
\* service, the look-up.
QueryPatterns(w, content_type) ==
    /\ running[w].pc = "waiting"
    /\ running' = [running EXCEPT
                      ![w] = [pc |-> "queried", requested |-> content_type,
                              found |-> FindPatterns(patterns, PDF)]]
    /\ call' = Called("user_patterns", None)
    /\ UNCHANGED <<pdfs, topics, sessions, active_timers, utcnow, elapsed, patterns, estimations, history,
                   analytics, added, result>>

\* Lines 321-331 of the service: the row is inserted and committed when the
\* look-up found none; then the route returns the row's columns.
ReturnPatterns(w) ==
    /\ running[w].pc = "queried"
    /\ patterns' = IF running[w].found = None
                   THEN Append(patterns, NewPatterns(PDF))
                   ELSE patterns
    /\ result' = [kind |-> "ok",
                  content_type |-> running[w].requested,
                  id |-> IF running[w].found = None
                         THEN Len(patterns) + 1 ELSE running[w].found]
    /\ running' = [running EXCEPT ![w] = Waiting]
    /\ UNCHANGED <<pdfs, topics, sessions, active_timers, utcnow, elapsed, estimations, history, analytics,
                   added, call>>

ConcurrentNext ==
    \E w \in Workers :
        \/ \E content_type \in {PDF, TOPIC} : QueryPatterns(w, content_type)
        \/ ReturnPatterns(w)

ConcurrentSpec == ConcurrentInit /\ [][ConcurrentNext]_vars

\* C19 as the specification states it: there is at most one PatternModel
\* per content type, also when first accesses overlap.
C19_OnePatternModelPerContentType ==
    \A i, j \in DOMAIN patterns :
        patterns[i].content_type = patterns[j].content_type => i = j

(***************************************************************************)
(* Context values outside their ranges: the estimate of a document asked   *)
(* for through the route, which validates the query parameters, and       *)
(* through the service, which takes the context as it is given.            *)
(***************************************************************************)
Difficulties == {"intermediate", "expert", "impossible"}
EnergyLevels == {RInt(0 - 1), Zero, One, RInt(2)}

ContextInit ==
    /\ StudiedDocument
    /\ patterns = <<>>
    /\ estimations = <<>>
    /\ history = <<>>
    /\ analytics = <<>>
    /\ running = <<>>
    /\ added = NoEntry
    /\ NoTimers
    /\ call = Called("none", None)
    /\ result = [kind |-> "none"]

\* get_pdf_estimation: energy_level is declared Query(0.8, ge=0, le=1), so
\* a value outside [0, 1] is answered with status 422 before the route body
\* runs.
GetPdfEstimation(pdf_id, difficulty, energy_level, hour) ==
    IF RLe(Zero, energy_level) /\ RLe(energy_level, One)
    THEN EstimatePdf(pdf_id,
                     [difficulty |-> difficulty,
                      energy_level |-> energy_level],
                     hour)
    ELSE /\ call' = Estimated("estimate_pdf", pdf_id,
                              [difficulty |-> difficulty,
                               energy_level |-> energy_level],
                              hour)
         /\ result' = [kind |-> "RequestValidationError",
                       status_code |-> 422]
         /\ UNCHANGED <<pdfs, topics, sessions, active_timers, utcnow, elapsed, patterns, estimations,
                        history, analytics, running, added>>

ContextNext ==
    \E pdf_id \in PdfIds, difficulty \in Difficulties :
        \E energy_level \in EnergyLevels, hour \in Hours :
            \/ GetPdfEstimation(pdf_id, difficulty, energy_level, hour)
            \/ EstimatePdf(pdf_id,
                           [difficulty |-> difficulty,
                            energy_level |-> energy_level],
                           hour)

ContextSpec == ContextInit /\ [][ContextNext]_vars

\* C20 as the specification states it: an estimate of a stored document is
\* never rejected for its context; a difficulty that is not one of the four
\* levels counts as the default difficulty, and the energy factor used is
\* within [0.5, 1.0] whatever energy level was given.
C20_ContextNormalized ==
    (/\ call.op = "estimate_pdf"
     /\ call.id \in DOMAIN pdfs)
        => /\ result.kind = "ok"
           /\ RLe(Rat(1, 2), result.factors.energy_factor)
           /\ RLe(result.factors.energy_factor, One)
           /\ call.user_context.difficulty = "impossible"
                => result.factors.difficulty_factor
                       = patterns[FindPatterns(patterns, PDF)]
                             .intermediate_adjustment

\* The operations that only read a PatternModel once it exists.
EstimateOps == {"estimate_pdf", "estimate_topic", "estimate_app_total",
                "recalculate"}

\* The rows of user_reading_patterns the step created.
Created == DOMAIN patterns' \ DOMAIN patterns

\* C21 as the specification states it: a PatternModel created on first
\* access has average speed 1.0, every time-of-day and difficulty
\* multiplier 1.0, consistency 0.5 and session count 0.
C21_DefaultsAllOne ==
    [][call'.op \in EstimateOps
           => \A i \in Created :
                  /\ patterns'[i].average_speed_pages_per_minute = One
                  /\ \A f \in Multipliers(patterns'[i]) : f = One
                  /\ patterns'[i].consistency_score = Rat(1, 2)
                  /\ patterns'[i].total_study_sessions = 0]_vars

\* C21 amended: a PatternModel created on first access has average speed
\* 1.0, consistency 0.5 and session count 0; the morning and intermediate
\* multipliers are 1.0, afternoon 0.9, evening 0.8, night 0.6, beginner 0.7,
\* advanced 1.3 and expert 1.5.
C21_DefaultsOfTheColumns ==
    [][call'.op \in EstimateOps
           => \A i \in Created :
                  /\ patterns'[i].average_speed_pages_per_minute = One
                  /\ patterns'[i].morning_performance_factor = One
                  /\ patterns'[i].afternoon_performance_factor = Rat(9, 10)
                  /\ patterns'[i].evening_performance_factor = Rat(8, 10)
                  /\ patterns'[i].night_performance_factor = Rat(6, 10)
                  /\ patterns'[i].beginner_adjustment = Rat(7, 10)
                  /\ patterns'[i].intermediate_adjustment = One
                  /\ patterns'[i].advanced_adjustment = Rat(13, 10)
                  /\ patterns'[i].expert_adjustment = Rat(15, 10)
                  /\ patterns'[i].consistency_score = Rat(1, 2)
                  /\ patterns'[i].total_study_sessions = 0]_vars

\* C21 witness: the first estimate of a document created the PatternModel
\* of documents, and no session has been counted in it.
C21_Witness ==
    /\ call.op = "estimate_pdf"
    /\ result.kind = "ok"
    /\ Len(patterns) = 1
    /\ patterns[1].content_type = PDF
    /\ patterns[1].total_study_sessions = 0
    /\ history = <<>>

(***************************************************************************)
(* update_estimation_from_session under requests that overlap.  Each       *)
(* request loads the PatternModel into its own database session (line      *)
(* 226), computes the new values from the loaded copy and commits them     *)
(* (lines 483-500); the UPDATE sets the attributes the request assigned.   *)
(***************************************************************************)
\* One document, studied in two completed sessions of different speed.
TwoSessions ==
    /\ pdfs = <<PdfRow(4, None, 25, "completed")>>
    /\ topics = <<>>
    /\ sessions = <<SessionRow("completed", 1, None, 60, 2),
                    SessionRow("completed", 1, None, 120, 1),
                    SessionRow("active", 1, None, 60, 2)>>

\* Lines 221-223
ReadingSpeed(session) ==
    IF session.active_duration_seconds > 0
    THEN RDiv(RInt(session.pages_covered),
              Rat(session.active_duration_seconds, 60))
    ELSE Zero

\* A plausible change: the row is read again under a lock when it is
\* written, so the update is applied to the stored values.
CommitPatternsLocked(stored, loaded, reading_speed) ==
    UpdateReadingPatterns(stored, reading_speed)

\* Lines 483-500 on the row as the request loaded it, written over the row
\* as it is stored: the average and the count are always assigned, the
\* peak and the minimum only when the observation moves them.
CommitPatterns(stored, loaded, reading_speed) ==
    IF RLt(Zero, reading_speed)
    THEN [stored EXCEPT
             !.average_speed_pages_per_minute =
                 UpdateReadingPatterns(loaded, reading_speed)
                     .average_speed_pages_per_minute,
             !.total_study_sessions = loaded.total_study_sessions + 1,
             !.peak_speed_pages_per_minute =
                 IF RLt(loaded.peak_speed_pages_per_minute, reading_speed)
                 THEN reading_speed ELSE @,
             !.minimum_speed_pages_per_minute =
                 IF RLt(reading_speed, loaded.minimum_speed_pages_per_minute)
                 THEN reading_speed ELSE @]
    ELSE stored

\* Lines 229-252: the history entry and the recalculation, on the tables
\* db1 that hold the committed PatternModel.
RecordAndRecalculate(db1, session_id, hour) ==
    LET Return(rec, rc) ==
            [db |-> rc.db,
             added |-> rec.added,
             res |-> IF rc.raised # ""
                     THEN [kind |-> rc.raised]
                     ELSE [kind |-> "ok",
                           session_id |-> session_id,
                           reading_speed |->
                               ReadingSpeed(sessions[session_id]),
                           patterns_updated |-> TRUE,
                           estimations_recalculated |-> rc.updated]]
        Recorded(rec) ==
            IF rec.raised # ""
            THEN [db |-> db1, added |-> rec.added,
                  res |-> [kind |-> rec.raised]]
            ELSE Return(rec,
                        RecalculateAffectedEstimations(
                            [db1 EXCEPT !.history = rec.history],
                            sessions[session_id], hour))
    IN  Recorded(IF sessions[session_id].pdf_id # None
                 THEN RecordEstimationAccuracy(
                          db1, PDF, sessions[session_id].pdf_id, session_id,
                          Rat(sessions[session_id].active_duration_seconds,
                              60))
                 ELSE IF sessions[session_id].topic_id # None
                 THEN RecordEstimationAccuracy(
                          db1, TOPIC, sessions[session_id].topic_id,
                          session_id,
                          Rat(sessions[session_id].active_duration_seconds,
                              60))
                 ELSE [history |-> db1.history, added |-> NoEntry,
                       raised |-> ""])

LostUpdateInit ==
    /\ TwoSessions
    /\ patterns = <<>>
    /\ estimations = <<>>
    /\ history = <<>>
    /\ analytics = <<>>
    /\ running = [w \in Workers |-> [pc |-> "waiting"]]
    /\ added = NoEntry
    /\ NoTimers
    /\ call = Called("none", None)
    /\ result = [kind |-> "none"]

\* Lines 212-226: the session is looked up; a completed session is measured
\* and the PatternModel is loaded, created first when there is none.
LoadPatterns(w, session_id) ==
    /\ running[w].pc = "waiting"
    /\ call' = Called("record_outcome", session_id)
    /\ added' = NoEntry
    /\ UNCHANGED <<pdfs, topics, sessions, active_timers, utcnow, elapsed, estimations, history, analytics>>
    /\ IF session_id \notin DOMAIN sessions
       THEN /\ result' = NotFound("Session", session_id)
            /\ UNCHANGED <<patterns, running>>
       ELSE IF ~ProcessesStatus(sessions[session_id].status)
       THEN /\ result' = [kind |-> "ok",
                          message |->
                      "Session must be completed to update estimations"]
            /\ UNCHANGED <<patterns, running>>
       ELSE /\ patterns' = GetOrCreatePatterns(patterns, PDF)
            /\ running' = [running EXCEPT
                              ![w] = [pc |-> "loaded",
                                      session_id |-> session_id,
                                      loaded |-> PatternsRow(patterns', PDF)]]
            /\ UNCHANGED result

\* Lines 227-252: the new values are committed, the history entry is
\* recorded and the estimates are recalculated.
SavePatterns(w, hour) ==
    LET Saved(r) ==
            /\ patterns' = r.db.patterns
            /\ estimations' = r.db.estimations
            /\ history' = r.db.history
            /\ added' = r.added
            /\ result' = r.res
    IN  /\ running[w].pc = "loaded"
        /\ Saved(RecordAndRecalculate(
                     [Db EXCEPT !.patterns =
                         [i \in DOMAIN patterns |->
                             IF i = FindPatterns(patterns, PDF)
                             THEN CommitPatterns(
                                      patterns[i], running[w].loaded,
                                      ReadingSpeed(
                                          sessions[running[w].session_id]))
                             ELSE patterns[i]]],
                     running[w].session_id, hour))
        /\ running' = [running EXCEPT ![w].pc = "done"]
        /\ call' = Called("record_outcome", running[w].session_id)
        /\ UNCHANGED <<pdfs, topics, sessions, active_timers, utcnow, elapsed, analytics>>

LostUpdateNext ==
    \E w \in Workers :
        \/ \E session_id \in SessionIds : LoadPatterns(w, session_id)
        \/ SavePatterns(w, 9)

LostUpdateSpec == LostUpdateInit /\ [][LostUpdateNext]_vars

\* The requests that have committed their update.
Done == {w \in Workers : running[w].pc = "done"}

\* C22: when two or more record_outcome requests loaded the PatternModel
\* at the same session count, before any of them wrote, then after all of
\* them wrote the count is one above the loaded count, not one per request,
\* and the average holds the observation of one of them only.
C22_UpdateCanBeLost ==
    \A n \in 0..MaxWorkers :
        (/\ Cardinality(Done) >= 2
         /\ \A w \in Done : running[w].loaded.total_study_sessions = n)
            => /\ PatternsRow(patterns, PDF).total_study_sessions = n + 1
               /\ \E w \in Done :
                      PatternsRow(patterns, PDF).average_speed_pages_per_minute
                          = UpdateReadingPatterns(
                                running[w].loaded,
                                ReadingSpeed(sessions[running[w].session_id]))
                                .average_speed_pages_per_minute

\* C22 witness: two requests for different sessions both loaded the new
\* PatternModel and both committed; one session is counted.
C22_Witness ==
    \E v, w \in Done :
        /\ running[v].session_id # running[w].session_id
        /\ running[v].loaded.total_study_sessions = 0
        /\ running[w].loaded.total_study_sessions = 0
        /\ \A u \in Workers : running[u].pc # "loaded"
        /\ Cardinality(Done) = 2
        /\ PatternsRow(patterns, PDF).total_study_sessions = 1

\* C23 as the specification states it: the weight of a new observation is
\* near 1 while the session count is 0 or 1, does not grow with the count,
\* and is never below the floor 0.1.
C23_WeightDecaysToFloor ==
    \A i \in DOMAIN patterns :
        /\ RLe(Rat(1, 10), Weight(patterns[i].total_study_sessions))
        /\ RLe(Weight(patterns[i].total_study_sessions + 1),
               Weight(patterns[i].total_study_sessions))
        /\ patterns[i].total_study_sessions <= 1
               => RLe(Rat(9, 10), Weight(patterns[i].total_study_sessions))

(***************************************************************************)
(* _update_reading_patterns from the lazily created PatternModel: sessions *)
(* of any reading speed, in any order.                                     *)
(***************************************************************************)
\* Lines 220-223: pages_covered / actual_time_minutes, or 0 without active
\* time; pages_covered is an unchecked integer, so the quotient may be
\* negative.
ObservedSpeeds == {RInt(-2), Zero, Rat(1, 4), Rat(3, 2), RInt(10)}

\* The model as _get_user_reading_patterns creates it, or that model after
\* eleven sessions read at exactly the default average speed 1.0, which
\* leave every speed column as created and bring the weight to 1/11.
SessionsAtDefaultSpeed == {0, 11}

OrderingInit ==
    /\ NoContent
    /\ \E n \in SessionsAtDefaultSpeed :
           patterns = <<[NewPatterns(PDF) EXCEPT !.total_study_sessions = n]>>
    /\ call = Called("update_reading_patterns", None)
    /\ result = [kind |-> "ok", reading_speed |-> Zero, observations |-> 0]

\* Lines 220-227 for one more completed session of reading speed s.
ObserveSession(s) ==
    /\ result.observations < MaxObservations
    /\ patterns' = <<UpdateReadingPatterns(patterns[1], s)>>
    /\ result' = [kind |-> "ok", reading_speed |-> s,
                  observations |-> result.observations + 1]
    /\ UNCHANGED <<pdfs, topics, sessions, active_timers, utcnow, elapsed, estimations, history, analytics,
                   running, added, call>>

OrderingNext == \E s \in ObservedSpeeds : ObserveSession(s)

OrderingSpec == OrderingInit /\ [][OrderingNext]_vars

\* minimum <= average <= peak
Ordered(p) ==
    /\ RLe(p.minimum_speed_pages_per_minute, p.average_speed_pages_per_minute)
    /\ RLe(p.average_speed_pages_per_minute, p.peak_speed_pages_per_minute)

\* The model after the sessions of speeds seq, in order.
RECURSIVE ObserveAll(_, _)
ObserveAll(p, seq) ==
    IF seq = <<>> THEN p
    ELSE ObserveAll(UpdateReadingPatterns(p, Head(seq)), Tail(seq))

\* Up to two further sessions.
ObservationSequences ==
    {<<>>} \cup {<<s>> : s \in ObservedSpeeds}
           \cup {<<s, t>> : s, t \in ObservedSpeeds}

\* C24 as the specification states it: from the PatternModel as it stands
\* there is a sequence of observations after which min <= average <= peak
\* no longer holds.
C24_OrderingCanBeInverted ==
    \E seq \in ObservationSequences : ~Ordered(ObserveAll(patterns[1], seq))

\* C24 amended: min_speed <= average_speed <= peak_speed holds in every
\* state reached from the lazily created model by observations.
C24_OrderingPreserved == \A i \in DOMAIN patterns : Ordered(patterns[i])

\* Observations have moved both the peak and the minimum.
C24_Witness ==
    /\ call.op = "update_reading_patterns"
    /\ result.observations >= 2
    /\ patterns[1].peak_speed_pages_per_minute = RInt(10)
    /\ patterns[1].minimum_speed_pages_per_minute = Rat(1, 4)

\* C27: the average speed of a PatternModel is strictly positive in every
\* state reached from the created model by observations, so the division
\* of _calculate_base_estimation has a divisor other than zero.
C27_AverageSpeedPositive ==
    \A i \in DOMAIN patterns :
        RLt(Zero, patterns[i].average_speed_pages_per_minute)

\* A session of speed 0 or less was skipped after sessions that moved the
\* average below its default.
C27_Witness ==
    /\ call.op = "update_reading_patterns"
    /\ result.observations = MaxObservations
    /\ ~RLt(Zero, result.reading_speed)
    /\ RLt(patterns[1].average_speed_pages_per_minute, One)

\* C25: the history entry that update_estimation_from_session appends
\* stores as estimated time the value the EstimationRecord held before the
\* call, not the value the same call recomputes afterwards.
C25_HistoryStoresPriorEstimate ==
    [][(call'.op = "record_outcome" /\ Len(history') = Len(history) + 1)
          => /\ history'[Len(history')].estimation_id \in DOMAIN estimations
             /\ history'[Len(history')].estimated_time_minutes =
                    estimations[history'[Len(history')].estimation_id]
                        .estimated_time_minutes]_vars

\* An entry was appended and the record it belongs to was recomputed to a
\* different value in the same call.
C25_Witness ==
    /\ call.op = "record_outcome"
    /\ result.kind = "ok"
    /\ added # NoEntry
    /\ Len(history) = 1
    /\ history[1] = added
    /\ estimations[added.estimation_id].estimated_time_minutes #
           added.estimated_time_minutes

\* The EstimationRecord of a document in table etable is what
\* estimate_pdf_completion_time computes without user context from the
\* PatternModel of ptable at some hour of the day.
Recomputed(pdf_id, etable, ptable) ==
    LET Is(row, p) ==
            /\ row.estimated_time_minutes =
                   RMul(RDiv(RInt(pdfs[pdf_id].page_count),
                             p.average_speed_pages_per_minute),
                        row.estimation_factors.total_factor)
            /\ \E hour \in Hours :
                   row.estimation_factors =
                       CalculateContextFactors(<<>>, p, hour)
    IN  /\ FindEstimation(etable, PDF, pdf_id) # 0
        /\ FindPatterns(ptable, PDF) # 0
        /\ Is(etable[FindEstimation(etable, PDF, pdf_id)],
              PatternsRow(ptable, PDF))

\* update_estimation_from_session returned its result for a completed
\* session on a document.
CompletedOnDocument(c, r) ==
    /\ c.op = "record_outcome"
    /\ r.kind = "ok"
    /\ "estimations_recalculated" \in DOMAIN r
    /\ sessions[c.id].pdf_id # None

\* C26: when update_estimation_from_session completes for a completed
\* session on a document, the stored EstimationRecord of the document is
\* page_count / average speed times the context factors of the PatternModel
\* as the call left it, and the topic of the document, when it has one, was
\* re-estimated in the same call (so was every document of that topic).
C26_AffectedEstimationsRecomputed ==
    [][CompletedOnDocument(call', result')
          => /\ Recomputed(sessions[call'.id].pdf_id, estimations', patterns')
             /\ pdfs[sessions[call'.id].pdf_id].topic_id # None
                    => /\ result'.estimations_recalculated = 2
                       /\ \A d \in DOMAIN pdfs :
                              pdfs[d].topic_id =
                                  pdfs[sessions[call'.id].pdf_id].topic_id
                                  => Recomputed(d, estimations', patterns')
             /\ pdfs[sessions[call'.id].pdf_id].topic_id = None
                    => result'.estimations_recalculated = 1]_vars

\* The call moved the average speed, and the document and its topic were
\* re-estimated.
C26_Witness ==
    /\ CompletedOnDocument(call, result)
    /\ RLt(Zero, result.reading_speed)
    /\ pdfs[sessions[call.id].pdf_id].topic_id # None
    /\ result.estimations_recalculated = 2
    /\ PatternsRow(patterns, PDF).total_study_sessions = 1
    /\ PatternsRow(patterns, PDF).average_speed_pages_per_minute # One

(***************************************************************************)
(* POST /estimation/update-from-session called more than once: the calls   *)
(* that took effect are kept, in order, in running.                        *)
(***************************************************************************)
\* The number of update-from-session calls followed.
MaxCalls == 2

RepeatInit ==
    /\ StudiedDocument
    /\ patterns = <<>>
    /\ estimations = <<>>
    /\ history = <<>>
    /\ analytics = <<>>
    /\ running = <<>>
    /\ added = NoEntry
    /\ NoTimers
    /\ call = Called("none", None)
    /\ result = [kind |-> "none"]

\* update_estimation_from_session reached line 225 and returned its result.
TookEffect(r) == r.res.kind = "ok" /\ "patterns_updated" \in DOMAIN r.res

\* The state after update_estimation_from_session returned or raised r.
Repeated(session_id, r) ==
    /\ patterns' = r.db.patterns
    /\ estimations' = r.db.estimations
    /\ history' = r.db.history
    /\ result' = r.res
    /\ added' = r.added
    /\ call' = Called("record_outcome", session_id)
    /\ running' = IF TookEffect(r) THEN Append(running, session_id)
                  ELSE running
    /\ UNCHANGED <<pdfs, topics, sessions, active_timers, utcnow, elapsed, analytics>>

\* POST /estimation/update-from-session
RecordOutcomeAgain(session_id, hour) ==
    /\ Len(running) < MaxCalls
    /\ Repeated(session_id, UpdateEstimationFromSession(Db, session_id, hour))

RepeatNext ==
    \/ \E pdf_id \in PdfIds, user_context \in Contexts, hour \in Hours :
           EstimatePdf(pdf_id, user_context, hour)
    \/ \E session_id \in SessionIds, hour \in Hours :
           RecordOutcomeAgain(session_id, hour)

RepeatSpec == RepeatInit /\ [][RepeatNext]_vars

\* An earlier call for the session took effect.
AlreadyRecorded(session_id) ==
    \E k \in DOMAIN running : running[k] = session_id

\* C28 as stated: a call of update_estimation_from_session for a session
\* that an earlier call has recorded does not increment the session count,
\* does not change the average speed and appends no history entry.
C28_RecordedAtMostOnce ==
    [][(call'.op = "record_outcome" /\ AlreadyRecorded(call'.id))
          => /\ PatternsRow(patterns', PDF).total_study_sessions =
                    PatternsRow(patterns, PDF).total_study_sessions
             /\ PatternsRow(patterns', PDF).average_speed_pages_per_minute =
                    PatternsRow(patterns, PDF).average_speed_pages_per_minute
             /\ Len(history') = Len(history)]_vars

(***************************************************************************)
(* modules/sessions/services.py: start, pause, resume and end of a study   *)
(* session, the TimeTracker objects of SessionsService.active_timers and   *)
(* the clock.  A handler reads the clock several times within             *)
(* microseconds; all its readings are taken as one instant.                *)
(***************************************************************************)
\* The sessions started and the ticks the clock is followed for.
MaxStarted == 2
MaxClock == 3

\* The clock moves in half seconds; TimeTracker and end_session keep whole
\* seconds, int(elapsed.total_seconds()).
TicksPerSecond == 2

\* A datetime value.
At(ticks) == [ticks |-> ticks]

\* A datetime attribute or column that holds Python's None.
NoTime == [ticks |-> -1]

\* int((later - earlier).total_seconds())
Seconds(later, earlier) == (later.ticks - earlier.ticks) \div TicksPerSecond

\* TimeTracker.__init__
NewTimeTracker == [start_time |-> NoTime, total_seconds |-> 0, is_running |-> FALSE]

\* TimeTracker.start
TimerStart(timer, now) ==
    IF ~timer.is_running
    THEN [timer EXCEPT !.start_time = now, !.is_running = TRUE]
    ELSE timer

\* TimeTracker.pause
TimerPause(timer, now) ==
    IF timer.is_running /\ timer.start_time # NoTime
    THEN [timer EXCEPT !.total_seconds = @ + Seconds(now, timer.start_time),
                       !.is_running = FALSE]
    ELSE timer

\* A plausible slip: resume sets the flag and keeps the old start time.
TimerResumeKeepsStart(timer, now) ==
    IF ~timer.is_running
    THEN [timer EXCEPT !.is_running = TRUE]
    ELSE timer

\* TimeTracker.resume
TimerResume(timer, now) ==
    IF ~timer.is_running
    THEN [timer EXCEPT !.start_time = now, !.is_running = TRUE]
    ELSE timer

\* TimeTracker.stop: the tracker after the call (it returns total_seconds)
TimerStop(timer, now) ==
    IF timer.is_running THEN TimerPause(timer, now) ELSE timer

\* TimeTracker.get_current_total
GetCurrentTotal(timer, now) ==
    IF timer.is_running /\ timer.start_time # NoTime
    THEN timer.total_seconds + Seconds(now, timer.start_time)
    ELSE timer.total_seconds

\* SessionException(detail)
SessionException(detail) == [kind |-> "SessionException", detail |-> detail]

\* Lines 30-39 with the column defaults of modules/sessions/models.py.
NewSession(start_page, now) ==
    [status |-> "active", pdf_id |-> None, topic_id |-> None,
     start_time |-> now, end_time |-> NoTime, pause_time |-> NoTime,
     total_duration_seconds |-> 0, active_duration_seconds |-> 0,
     break_duration_seconds |-> 0,
     start_page |-> start_page, end_page |-> None, pages_covered |-> 0,
     reading_speed |-> Zero, productivity_score |-> Zero]

\* Session.calculate_metrics
CalculateMetrics(session) ==
    IF session.total_duration_seconds > 0
    THEN [session EXCEPT
             !.reading_speed =
                 IF session.active_duration_seconds > 0
                 THEN RDiv(RInt(session.pages_covered),
                           Rat(session.active_duration_seconds, 60))
                 ELSE @,
             !.productivity_score =
                 RMul(Rat(session.active_duration_seconds,
                          session.total_duration_seconds), RInt(100))]
    ELSE session

\* active_timers with the entry of session_id set / deleted
WithTimer(timers, session_id, timer) ==
    [k \in DOMAIN timers \cup {session_id} |->
        IF k = session_id THEN timer ELSE timers[k]]

WithoutTimer(timers, session_id) ==
    [k \in DOMAIN timers \ {session_id} |-> timers[k]]

\* The response of a handler; the tables are as the handler left them.
Respond(op, session_id, r) ==
    /\ call' = Called(op, session_id)
    /\ result' = r
    /\ UNCHANGED <<pdfs, topics, patterns, estimations, history, analytics,
                   running, added, utcnow>>

\* A handler that raised: db.rollback() leaves the tables as they were.
Raise(op, session_id, r) ==
    /\ Respond(op, session_id, r)
    /\ UNCHANGED <<sessions, active_timers, elapsed>>

\* POST /sessions/start
StartSession(start_page) ==
    /\ Len(sessions) < MaxStarted
    /\ sessions' = Append(sessions, NewSession(start_page, At(utcnow)))
    /\ active_timers' = WithTimer(active_timers, Len(sessions) + 1,
                                  TimerStart(NewTimeTracker, At(utcnow)))
    /\ elapsed' = Append(elapsed, [active |-> 0, paused |-> 0])
    /\ Respond("start_session", Len(sessions) + 1,
               [kind |-> "ok", status |-> "active"])

\* pause_session lines 66-76, for a session that is active
Paused(session, timers, session_id, now) ==
    IF session_id \in DOMAIN timers
    THEN [session EXCEPT
             !.status = "paused",
             !.pause_time = now,
             !.active_duration_seconds =
                 GetCurrentTotal(TimerPause(timers[session_id], now), now)]
    ELSE [session EXCEPT !.status = "paused", !.pause_time = now]

\* PUT /sessions/{session_id}/pause
PauseSession(session_id) ==
    IF session_id \notin DOMAIN sessions
    THEN Raise("pause_session", session_id, NotFound("Session", session_id))
    ELSE IF sessions[session_id].status # "active"
    THEN Raise("pause_session", session_id,
               SessionException("Only active sessions can be paused"))
    ELSE /\ sessions' = [sessions EXCEPT ![session_id] =
                            Paused(@, active_timers, session_id, At(utcnow))]
         /\ active_timers' =
                IF session_id \in DOMAIN active_timers
                THEN [active_timers EXCEPT ![session_id] =
                         TimerPause(@, At(utcnow))]
                ELSE active_timers
         /\ UNCHANGED elapsed
         /\ Respond("pause_session", session_id,
                    [kind |-> "ok", status |-> "paused"])

\* PUT /sessions/{session_id}/resume
ResumeSession(session_id) ==
    IF session_id \notin DOMAIN sessions
    THEN Raise("resume_session", session_id, NotFound("Session", session_id))
    ELSE IF sessions[session_id].status # "paused"
    THEN Raise("resume_session", session_id,
               SessionException("Only paused sessions can be resumed"))
    ELSE /\ sessions' = [sessions EXCEPT ![session_id] =
                            [@ EXCEPT !.status = "active",
                                      !.pause_time = NoTime]]
         /\ active_timers' =
                IF session_id \in DOMAIN active_timers
                THEN [active_timers EXCEPT ![session_id] =
                         TimerResume(@, At(utcnow))]
                ELSE WithTimer(active_timers, session_id,
                         TimerStart([NewTimeTracker EXCEPT !.total_seconds =
                                        sessions[session_id]
                                            .active_duration_seconds],
                                    At(utcnow)))
         /\ UNCHANGED elapsed
         /\ Respond("resume_session", session_id,
                    [kind |-> "ok", status |-> "active"])

\* A plausible slip: only cancelled sessions count as ended.
IsEndedOnlyCancelled(status) == status = "cancelled"

\* Line 128: the session is already ended.
IsEnded(status) == status \in {"completed", "cancelled"}

\* end_session lines 131-152 for a session that has not ended; the route
\* has set end_page before when the query parameter was given.
Ended(session, timers, session_id, now) ==
    LET Metrics(s) ==
            CalculateMetrics([s EXCEPT !.status = "completed",
                                       !.end_time = now])
        Pages(s) ==
            Metrics(IF s.end_page # None
                    THEN [s EXCEPT !.pages_covered =
                             IF s.end_page - s.start_page + 1 > 0
                             THEN s.end_page - s.start_page + 1 ELSE 0]
                    ELSE s)
        Durations(s) ==
            Pages(IF s.start_time # NoTime
                  THEN [s EXCEPT
                           !.total_duration_seconds =
                               Seconds(now, s.start_time),
                           !.break_duration_seconds =
                               Seconds(now, s.start_time)
                                   - s.active_duration_seconds]
                  ELSE s)
    IN  Durations(IF session_id \in DOMAIN timers
              THEN [session EXCEPT !.active_duration_seconds =
                       TimerStop(timers[session_id], now).total_seconds]
              ELSE session)

\* PUT /sessions/{session_id}/end
EndSession(session_id, end_page) ==
    IF session_id \notin DOMAIN sessions
    THEN Raise("end_session", session_id, NotFound("Session", session_id))
    ELSE IF IsEnded(sessions[session_id].status)
    THEN Raise("end_session", session_id,
               SessionException("Session is already ended"))
    ELSE /\ sessions' = [sessions EXCEPT ![session_id] =
                            Ended(IF end_page # None
                                  THEN [@ EXCEPT !.end_page = end_page]
                                  ELSE @,
                                  active_timers, session_id, At(utcnow))]
         /\ active_timers' = WithoutTimer(active_timers, session_id)
         /\ UNCHANGED elapsed
         /\ Respond("end_session", session_id,
                    [kind |-> "ok", status |-> "completed"])

\* Half a second passes; each session spends it in the status it has.
Tick ==
    /\ utcnow < MaxClock
    /\ utcnow' = utcnow + 1
    /\ elapsed' = [i \in DOMAIN elapsed |->
                      [active |-> elapsed[i].active
                                    + IF sessions[i].status = "active"
                                      THEN 1 ELSE 0,
                       paused |-> elapsed[i].paused
                                    + IF sessions[i].status = "paused"
                                      THEN 1 ELSE 0]]
    /\ UNCHANGED <<pdfs, topics, sessions, patterns, estimations, history,
                   analytics, running, added, call, result, active_timers>>

\* The process is started again: sessions_service is a new SessionsService,
\* whose active_timers is empty; the tables are kept.
Restart ==
    /\ active_timers # <<>>
    /\ active_timers' = <<>>
    /\ call' = Called("restart", None)
    /\ result' = [kind |-> "none"]
    /\ UNCHANGED <<pdfs, topics, sessions, patterns, estimations, history,
                   analytics, running, added, utcnow, elapsed>>

StartPages == {2}
EndPages == {None, 3}

SessionsInit ==
    /\ NoContent
    /\ patterns = <<>>
    /\ call = Called("none", None)
    /\ result = [kind |-> "none"]

SessionsNext ==
    \/ \E start_page \in StartPages : StartSession(start_page)
    \/ \E session_id \in SessionIds : PauseSession(session_id)
    \/ \E session_id \in SessionIds : ResumeSession(session_id)
    \/ \E session_id \in SessionIds, end_page \in EndPages :
           EndSession(session_id, end_page)
    \/ Tick
    \/ Restart

SessionsSpec == SessionsInit /\ [][SessionsNext]_vars

\* The last step was the handler op answering for session i.
Handled(op, i) == call' = Called(op, i) /\ utcnow' = utcnow

\* C29: the status of a session changes only from active to paused in
\* pause_session, from paused to active in resume_session and from active
\* or paused to completed in end_session; a completed session is never
\* written again (status, durations, pages_covered and every other column
\* stay), and pause, resume and end on it raise SessionException.
C29_StatusMachine ==
    [][\A i \in DOMAIN sessions :
          /\ sessions'[i].status # sessions[i].status
                 => \/ /\ sessions[i].status = "active"
                       /\ sessions'[i].status = "paused"
                       /\ Handled("pause_session", i)
                    \/ /\ sessions[i].status = "paused"
                       /\ sessions'[i].status = "active"
                       /\ Handled("resume_session", i)
                    \/ /\ sessions[i].status \in {"active", "paused"}
                       /\ sessions'[i].status = "completed"
                       /\ Handled("end_session", i)
          /\ sessions[i].status = "completed"
                 => /\ sessions'[i] = sessions[i]
                    /\ (\/ Handled("pause_session", i)
                        \/ Handled("resume_session", i)
                        \/ Handled("end_session", i))
                           => result'.kind = "SessionException"]_vars

\* end_session was refused on a session that had been paused, resumed and
\* ended.
C29_Witness ==
    /\ call.op = "end_session"
    /\ result.kind = "SessionException"
    /\ call.id \in DOMAIN sessions
    /\ sessions[call.id].status = "completed"
    /\ sessions[call.id].active_duration_seconds > 0
    /\ elapsed[call.id].paused > 0

\* C30: active_timers holds a timer only for sessions that are active or
\* paused, the timer runs exactly when the session is active, and neither
\* the timer nor the active_duration_seconds column counts more time than
\* the session has spent in status active.
C30_TimersFollowSessions ==
    /\ \A i \in DOMAIN active_timers :
           /\ i \in DOMAIN sessions
           /\ sessions[i].status \in {"active", "paused"}
           /\ active_timers[i].is_running <=> sessions[i].status = "active"
           /\ GetCurrentTotal(active_timers[i], At(utcnow)) * TicksPerSecond
                  <= elapsed[i].active
    /\ \A i \in DOMAIN sessions :
           sessions[i].active_duration_seconds * TicksPerSecond
               <= elapsed[i].active

\* A session was paused for a while, resumed and ended with a second of
\* active time while the other session still has its timer.
C30_Witness ==
    \E i, j \in DOMAIN sessions :
        /\ sessions[i].status = "completed"
        /\ i \notin DOMAIN active_timers
        /\ elapsed[i].paused > 0
        /\ sessions[i].active_duration_seconds = 1
        /\ j \in DOMAIN active_timers
====
